---- MODULE Spec2Model ----
(***************************************************************************)
(* Stage orchestration of the invoice pipeline: the retry executor         *)
(* (BaseAgent.execute), the six stages' process methods, the workflow loop *)
(* (WorkflowManager.execute_workflow) with its execution history, the      *)
(* fixed pipeline (AgentCoordinator.process_invoice), process_batch and    *)
(* get_system_health.                                                      *)
(*                                                                         *)
(* Numbers: a score is kept as an exact fraction [num, den]; the invoice   *)
(* confidence is kept in hundredths.  The rounding of the Python floats is *)
(* modelled for the scores only (section "Scoring in IEEE-754 doubles"),   *)
(* where the order of the additions shows in it.  Formatted strings are    *)
(* kept as tuples or records of their parts.  The timestamps, the elapsed  *)
(* times and the processing_steps log of a result are left out: no control *)
(* decision reads them.                                                    *)
(***************************************************************************)
EXTENDS Integers, Sequences, FiniteSets, TLC

\* Bound: how many runs (calls of an entry point) one behaviour makes.
MaxRuns == 1

\* An Optional value: None is the empty tuple, a present value v is <<v>>.
None == <<>>
Some(v) == <<v>>

\* The outcome of a call that may raise: Raised, or Returned(v).
Raised == <<>>
Returned(v) == <<v>>

Rat(n, d) == [num |-> n, den |-> d]

\* a >= b for two fractions with positive denominators
GE(a, b) == a.num * b.den >= b.num * a.den

AgentNames ==
    {"document_parser", "data_extraction", "validation",
     "regional_compliance", "approval", "audit"}

\* AGENT_CONFIGS[agent]["max_retries"]
max_retries ==
    [document_parser |-> 3, data_extraction |-> 3, validation |-> 2,
     regional_compliance |-> 2, approval |-> 1, audit |-> 1]

\* settings.AUTO_APPROVE_THRESHOLD and settings.VALIDATION_THRESHOLD, in hundredths
auto_approve_threshold == 95
validation_threshold == 75

(***************************************************************************)
(* ProcessingResult                                                        *)
(***************************************************************************)
ProcessingResult == [confidence_score |-> Rat(0, 1), errors |-> <<>>, warnings |-> <<>>]

add_error(result, error) == [result EXCEPT !.errors = Append(@, error)]

add_warning(result, warning) == [result EXCEPT !.warnings = Append(@, warning)]

\* the check entries with a given status, formatted as "<prefix>: <message>", in order
Messages(results, status, prefix) ==
    LET sel == SelectSeq(results, LAMBDA c : c.status = status)
    IN  [k \in 1..Len(sel) |-> <<prefix, sel[k].message>>]

(***************************************************************************)
(* Scoring                                                                 *)
(***************************************************************************)
\* variant of the weights below in which every severity weighs the same
SeverityWeight_flat(severity) == 1

SeverityWeight(severity) ==
    CASE severity = "low" -> 1
      [] severity = "medium" -> 2
      [] severity = "high" -> 3
      [] OTHER -> 1

\* variant of the points below in which a pass earns less than a warning
StatusPoints_pass_below_warning(status, weight) ==
    IF status = "pass" THEN 5 * weight
    ELSE IF status = "warning" THEN 7 * weight
    ELSE 0

\* points of one check in tenths: pass = weight, warning = weight * 0.7, else 0
StatusPoints(status, weight) ==
    IF status = "pass" THEN 10 * weight
    ELSE IF status = "warning" THEN 7 * weight
    ELSE 0

\* the loop of ValidationAgent._calculate_validation_score over the first k checks
RECURSIVE ValidationScoreLoop(_, _)
ValidationScoreLoop(validation_results, k) ==
    IF k = 0 THEN [total_score |-> 0, max_score |-> 0]
    ELSE LET acc == ValidationScoreLoop(validation_results, k - 1)
             weight == SeverityWeight(validation_results[k].severity)
         IN  [total_score |-> acc.total_score + StatusPoints(validation_results[k].status, weight),
              max_score |-> acc.max_score + weight]

_calculate_validation_score(validation_results) ==
    IF Len(validation_results) = 0 THEN Rat(0, 1)
    ELSE LET acc == ValidationScoreLoop(validation_results, Len(validation_results))
         IN  IF acc.max_score > 0 THEN Rat(acc.total_score, 10 * acc.max_score) ELSE Rat(0, 1)

\* the loop of RegionalComplianceAgent._calculate_compliance_score: info is skipped
RECURSIVE ComplianceScoreLoop(_, _)
ComplianceScoreLoop(compliance_results, k) ==
    IF k = 0 THEN [total_score |-> 0, max_score |-> 0]
    ELSE LET acc == ComplianceScoreLoop(compliance_results, k - 1)
             weight == SeverityWeight(compliance_results[k].severity)
         IN  IF compliance_results[k].status = "info" THEN acc
             ELSE [total_score |-> acc.total_score + StatusPoints(compliance_results[k].status, weight),
                   max_score |-> acc.max_score + weight]

_calculate_compliance_score(compliance_results) ==
    IF Len(compliance_results) = 0 THEN Rat(0, 1)
    ELSE LET acc == ComplianceScoreLoop(compliance_results, Len(compliance_results))
         IN  IF acc.max_score > 0 THEN Rat(acc.total_score, 10 * acc.max_score) ELSE Rat(1, 1)

\* the loop of AuditAgent._calculate_result_score over the first k results
RECURSIVE ResultScoreLoop(_, _)
ResultScoreLoop(results, k) ==
    IF k = 0 THEN [total_score |-> 0, max_score |-> 0]
    ELSE LET acc == ResultScoreLoop(results, k - 1)
             weight == SeverityWeight(results[k].severity)
         IN  [total_score |-> acc.total_score + StatusPoints(results[k].status, weight),
              max_score |-> acc.max_score + weight]

\* variant of the score below that is not divided by max_score
_calculate_result_score_total(results) ==
    Rat(ResultScoreLoop(results, Len(results)).total_score, 10)

_calculate_result_score(results) ==
    IF Len(results) = 0 THEN Rat(1, 1)
    ELSE LET acc == ResultScoreLoop(results, Len(results))
         IN  IF acc.max_score > 0 THEN Rat(acc.total_score, 10 * acc.max_score) ELSE Rat(1, 1)

(***************************************************************************)
(* Scoring in IEEE-754 doubles.  A non-negative double below 16 is a       *)
(* multiple of 2^-53; it is kept as that multiple, written in three limbs  *)
(* <<a2, a1, a0>> of 20 bits (a2 * 2^40 + a1 * 2^20 + a0).  Every          *)
(* operation is the exact one followed by rounding to 53 significant bits, *)
(* ties to even.                                                           *)
(***************************************************************************)
Limb == 2^20

Carry(x) ==
    LET s0 == x[3]
        s1 == x[2] + (s0 \div Limb)
        s2 == x[1] + (s1 \div Limb)
    IN  <<s2, s1 % Limb, s0 % Limb>>

BigAdd(x, y) == Carry(<<x[1] + y[1], x[2] + y[2], x[3] + y[3]>>)

BigTimes(n, x) == Carry(<<n * x[1], n * x[2], n * x[3]>>)

\* how many bits the multiple has beyond 53
ExcessBits(x) == CHOOSE e \in 0..17 : x[1] < 2^(13 + e) /\ (e = 0 \/ x[1] >= 2^(12 + e))

\* round to nearest, ties to even
RoundToDouble(x) ==
    LET e == ExcessBits(x)
        step == 2^e
        low == x[3] % step
        kept == <<x[1], x[2], x[3] - low>>
        odd == (x[3] \div step) % 2 = 1
        up == e > 0 /\ (2 * low > step \/ (2 * low = step /\ odd))
    IN  IF up THEN BigAdd(kept, <<0, 0, step>>) ELSE kept

\* the doubles 1.0, 2.0, 3.0, ... and the literal 0.7
DoubleOfInt(n) == <<n * 2^13, 0, 0>>

DoublePoint7 == <<5734, 419430, 419430>>

DoubleAdd(x, y) == RoundToDouble(BigAdd(x, y))

\* weight * x for a weight 1.0, 2.0 or 3.0
DoubleTimes(weight, x) == RoundToDouble(BigTimes(weight, x))

\* a quotient below or equal to 1: mant * 2^-(53 + exp), mant in [2^52, 2^53)
DoubleZero == [mant |-> <<0, 0, 0>>, exp |-> 0]

DoubleOne == [mant |-> <<2^12, 0, 0>>, exp |-> -1]

\* total_score / max_score for a double total_score and an integral max_score
DoubleDivide(x, m) ==
    IF x = <<0, 0, 0>> THEN DoubleZero
    ELSE LET scaled(k) == BigTimes(2^k, x)
             k == CHOOSE j \in 0..10 : /\ scaled(j)[1] >= m * 2^12
                                       /\ (j = 0 \/ scaled(j - 1)[1] < m * 2^12)
             n == scaled(k)
             q2 == n[1] \div m
             r2 == n[1] % m
             q1 == (r2 * Limb + n[2]) \div m
             r1 == (r2 * Limb + n[2]) % m
             q0 == (r1 * Limb + n[3]) \div m
             r0 == (r1 * Limb + n[3]) % m
             up == 2 * r0 > m \/ (2 * r0 = m /\ q0 % 2 = 1)
             q == IF up THEN BigAdd(<<q2, q1, q0>>, <<0, 0, 1>>) ELSE <<q2, q1, q0>>
         IN  IF q = <<2^13, 0, 0>> THEN [mant |-> <<2^12, 0, 0>>, exp |-> k - 1]
             ELSE [mant |-> q, exp |-> k]

\* the points of one check as a double
DoubleStatusPoints(status, weight) ==
    IF status = "pass" THEN DoubleOfInt(weight)
    ELSE IF status = "warning" THEN DoubleTimes(weight, DoublePoint7)
    ELSE <<0, 0, 0>>

\* the loop of the scoring functions, skipping info entries or not
RECURSIVE DoubleScoreLoop(_, _, _)
DoubleScoreLoop(results, k, skip_info) ==
    IF k = 0 THEN [total_score |-> <<0, 0, 0>>, max_score |-> 0]
    ELSE LET acc == DoubleScoreLoop(results, k - 1, skip_info)
             weight == SeverityWeight(results[k].severity)
         IN  IF skip_info /\ results[k].status = "info" THEN acc
             ELSE [total_score |-> DoubleAdd(acc.total_score,
                                             DoubleStatusPoints(results[k].status, weight)),
                   max_score |-> acc.max_score + weight]

\* ValidationAgent._calculate_validation_score as the double it returns
_calculate_validation_score_double(validation_results) ==
    IF Len(validation_results) = 0 THEN DoubleZero
    ELSE LET acc == DoubleScoreLoop(validation_results, Len(validation_results), FALSE)
         IN  IF acc.max_score > 0 THEN DoubleDivide(acc.total_score, acc.max_score)
             ELSE DoubleZero

\* RegionalComplianceAgent._calculate_compliance_score as the double it returns
_calculate_compliance_score_double(compliance_results) ==
    IF Len(compliance_results) = 0 THEN DoubleZero
    ELSE LET acc == DoubleScoreLoop(compliance_results, Len(compliance_results), TRUE)
         IN  IF acc.max_score > 0 THEN DoubleDivide(acc.total_score, acc.max_score)
             ELSE DoubleOne

\* DataExtractionAgent._calculate_extraction_confidence, in sixtieths:
\* 0.3 for data, 0.4 * critical/3, 0.2 * optional/4, 0.1 for an Invoice object
_calculate_extraction_confidence(has_data, present_critical, present_optional, has_invoice) ==
    LET confidence == (IF has_data THEN 18 ELSE 0) + 8 * present_critical
                      + 3 * present_optional + (IF has_invoice THEN 6 ELSE 0)
    IN  Rat(IF confidence < 60 THEN confidence ELSE 60, 60)

(***************************************************************************)
(* ApprovalAgent: the decision engine                                      *)
(***************************************************************************)
MapMessage(results) == [k \in 1..Len(results) |-> results[k].message]

_gather_approval_factors(invoice, context) ==
    [invoice |-> [processing_status |-> invoice.processing_status,
                  confidence_score |-> invoice.confidence_score],
     validation_results |-> context.validation_results,
     compliance_results |-> context.compliance_results,
     approval_info |-> context.approval_info]

\* variant of the check below that finds no critical error
_check_critical_errors_none(factors) == <<>>

_check_critical_errors(factors) ==
    LET all == factors.validation_results \o factors.compliance_results
        critical == SelectSeq(all, LAMBDA r : r.status = "error" /\ r.severity = "high")
    IN  MapMessage(critical)
        \o (IF factors.invoice.processing_status = "error"
            THEN <<"Invoice processing resulted in error status">> ELSE <<>>)

\* None >= float raises TypeError
_evaluate_confidence(factors) ==
    LET confidence_score == factors.invoice.confidence_score
    IN  IF confidence_score = None THEN Raised
        ELSE IF confidence_score[1] >= auto_approve_threshold
             THEN Returned([passed |-> TRUE, manual_review_recommended |-> FALSE])
        ELSE IF confidence_score[1] >= validation_threshold
             THEN Returned([passed |-> TRUE, manual_review_recommended |-> TRUE])
        ELSE Returned([passed |-> FALSE, manual_review_recommended |-> FALSE])

_evaluate_compliance(factors) ==
    LET rs == factors.compliance_results
        issues == SelectSeq(rs, LAMBDA r : r.status = "error" /\ r.severity = "high")
        warns == SelectSeq(rs, LAMBDA r : \/ r.status = "error" /\ r.severity # "high"
                                          \/ r.status = "warning")
    IN  [passed |-> Len(issues) = 0,
         issues |-> MapMessage(issues),
         warnings |-> MapMessage(warns)]

_check_approval_authority(factors) ==
    LET approval_info == factors.approval_info
    IN  IF approval_info # None /\ approval_info[1].approval_level # "auto"
        THEN [requires_manual |-> TRUE, level |-> approval_info[1].approval_level,
              required_approver |-> approval_info[1].required_approver]
        ELSE [requires_manual |-> FALSE, level |-> "auto", required_approver |-> "system"]

\* variant of the evaluation below that fails on any error, severe or not
_evaluate_validation_any_error(factors) ==
    LET rs == factors.validation_results
        errs == SelectSeq(rs, LAMBDA r : r.status = "error")
        warns == SelectSeq(rs, LAMBDA r : r.status = "warning")
        flagged == SelectSeq(rs, LAMBDA r : r.status \in {"error", "warning"})
        high == \E k \in 1..Len(errs) : errs[k].severity = "high"
        too_many == Len(errs) > 5 \/ Len(warns) > 10
    IN  [passed |-> Len(errs) = 0 /\ ~too_many,
         severe |-> high \/ too_many,
         warnings |-> MapMessage(flagged)
                      \o (IF too_many THEN <<"Too many validation issues detected">> ELSE <<>>)]

_evaluate_validation(factors) ==
    LET rs == factors.validation_results
        errs == SelectSeq(rs, LAMBDA r : r.status = "error")
        warns == SelectSeq(rs, LAMBDA r : r.status = "warning")
        flagged == SelectSeq(rs, LAMBDA r : r.status \in {"error", "warning"})
        high == \E k \in 1..Len(errs) : errs[k].severity = "high"
        too_many == Len(errs) > 5 \/ Len(warns) > 10
    IN  [passed |-> ~(high \/ too_many),
         severe |-> high \/ too_many,
         warnings |-> MapMessage(flagged)
                      \o (IF too_many THEN <<"Too many validation issues detected">> ELSE <<>>)]

\* a formatted reason string: its fixed text and the values put into it
Reason(text, args) == [text |-> text, args |-> args]

InitialDecision ==
    [decision |-> "rejected", reason |-> Reason("Initial state", <<>>), approver |-> "system",
     factors_considered |-> <<>>, warnings |-> <<>>, requires_manual_review |-> FALSE]

\* the rule chain: the first rule that fires returns; Raised when the
\* confidence comparison raises
_make_approval_decision(factors) ==
    LET critical_errors == _check_critical_errors(factors)
        confidence_raised == _evaluate_confidence(factors) = Raised
        confidence_checks == _evaluate_confidence(factors)[1]
        compliance_checks == _evaluate_compliance(factors)
        approval_authority == _check_approval_authority(factors)
        validation_checks == _evaluate_validation(factors)
        f1 == <<"confidence_evaluation">>
        f2 == f1 \o <<"compliance_evaluation">>
        f3 == f2 \o <<"approval_authority">>
        f4 == f3 \o <<"validation_evaluation">>
    IN  IF Len(critical_errors) > 0
        THEN Returned([InitialDecision EXCEPT !.decision = "rejected",
                  !.reason = Reason("Critical errors found", critical_errors),
                  !.factors_considered = <<"critical_errors">>])
        ELSE IF confidence_raised THEN Raised
        ELSE Returned(
        IF ~confidence_checks.passed
        THEN IF confidence_checks.manual_review_recommended
             THEN [InitialDecision EXCEPT !.decision = "manual_review",
                       !.reason = Reason("Low confidence scores require manual review", <<>>),
                       !.requires_manual_review = TRUE, !.factors_considered = f1]
             ELSE [InitialDecision EXCEPT !.decision = "rejected",
                       !.reason = Reason("Confidence scores below acceptable threshold", <<>>),
                       !.factors_considered = f1]
        ELSE IF ~compliance_checks.passed
        THEN [InitialDecision EXCEPT !.decision = "rejected",
                  !.reason = Reason("Compliance requirements not met", <<>>),
                  !.warnings = compliance_checks.issues, !.factors_considered = f2]
        ELSE IF approval_authority.requires_manual
        THEN [InitialDecision EXCEPT !.decision = "manual_review",
                  !.reason = Reason("Amount requires approval", <<approval_authority.level>>),
                  !.approver = approval_authority.required_approver,
                  !.requires_manual_review = TRUE, !.factors_considered = f3]
        ELSE IF ~validation_checks.passed /\ validation_checks.severe
        THEN [InitialDecision EXCEPT !.decision = "rejected",
                  !.reason = Reason("Severe validation issues found", <<>>),
                  !.warnings = validation_checks.warnings, !.factors_considered = f4]
        ELSE [InitialDecision EXCEPT !.decision = "approved",
                  !.reason = Reason("All validation and compliance checks passed", <<>>),
                  !.approver = "system", !.factors_considered = f4,
                  !.warnings = (IF ~validation_checks.passed
                                THEN validation_checks.warnings ELSE <<>>)
                               \o validation_checks.warnings
                               \o compliance_checks.warnings])

\* the invoice after the decision is applied; manual_review keeps the status
_apply_approval_decision(invoice, decision) ==
    IF decision.decision = "approved" THEN [invoice EXCEPT !.processing_status = "approved"]
    ELSE IF decision.decision = "rejected" THEN [invoice EXCEPT !.processing_status = "rejected"]
    ELSE invoice

Min(a, b) == IF a <= b THEN a ELSE b
Max(a, b) == IF a >= b THEN a ELSE b

\* in hundredths; None + 0.1 raises TypeError
_calculate_decision_confidence(factors, decision) ==
    LET base_confidence == factors.invoice.confidence_score
    IN  IF base_confidence = None THEN Raised
        ELSE IF decision.decision = "approved" THEN Returned(Min(base_confidence[1] + 10, 100))
        ELSE IF decision.decision = "rejected" THEN Returned(Min(base_confidence[1] + 5, 100))
        ELSE Returned(Max(base_confidence[1] - 10, 0))

(***************************************************************************)
(* What the external collaborators (OCR, the language model, the regional  *)
(* rule tables, the audit log file) hand to a stage: each stage's process  *)
(* is a function of its input, the context and one such outcome.           *)
(***************************************************************************)
Check(status, severity, message) == [status |-> status, severity |-> severity, message |-> message]

Fault == [kind |-> "fault"]

\* _calculate_confidence of the parsed text
DocumentParserOutcomes == {Fault, [kind |-> "ok", confidence_score |-> Rat(9, 10)]}

\* how many critical and optional fields the extraction found, and whether
\* _create_invoice_object built an Invoice or returned None
DataExtractionOutcomes ==
    {Fault} \cup
    [kind : {"ok"}, present_critical : {3}, present_optional : {3, 4}, invoice : BOOLEAN]

\* the check lists _validate_invoice returns
ValidationCheckLists ==
    { <<Check("pass", "high", "v1")>>,
      <<Check("pass", "high", "v1"), Check("warning", "medium", "v2")>>,
      <<Check("pass", "high", "v1"), Check("error", "low", "v3")>>,
      <<Check("error", "high", "v4"), Check("pass", "low", "v1")>> }

ValidationOutcomes == {Fault} \cup [kind : {"ok"}, checks : ValidationCheckLists]

\* the check lists _check_compliance returns (the date check is always info)
ComplianceCheckLists ==
    { <<Check("info", "low", "c0"), Check("pass", "high", "c1")>>,
      <<Check("info", "low", "c0"), Check("warning", "low", "c2"), Check("pass", "high", "c1")>>,
      <<Check("info", "low", "c0"), Check("error", "medium", "c3"), Check("pass", "high", "c1")>>,
      <<Check("info", "low", "c0"), Check("error", "high", "c4")>> }

\* approval_level / required_approver of _determine_approval_requirements
ApprovalInfos ==
    { [approval_level |-> "auto", required_approver |-> "system"],
      [approval_level |-> "manager", required_approver |-> "manager"] }

ComplianceOutcomes ==
    {Fault} \cup
    [kind : {"ok"}, checks : ComplianceCheckLists, approval_info : ApprovalInfos,
     region_valid : {TRUE}] \cup
    [kind : {"ok"}, checks : { <<Check("info", "low", "c0"), Check("pass", "high", "c1")>> },
     approval_info : { [approval_level |-> "auto", required_approver |-> "system"] },
     region_valid : {FALSE}]

AuditOutcomes == {Fault, [kind |-> "ok"]}

Outcomes(agent) ==
    CASE agent = "document_parser" -> DocumentParserOutcomes
      [] agent = "data_extraction" -> DataExtractionOutcomes
      [] agent = "validation" -> ValidationOutcomes
      [] agent = "regional_compliance" -> ComplianceOutcomes
      [] agent = "approval" -> {[kind |-> "ok"]}
      [] agent = "audit" -> AuditOutcomes

(***************************************************************************)
(* The run context and the stages' process methods.  A stage receives an   *)
(* input (the original payload, the Invoice of the context, or None) and   *)
(* the context; it returns its result and the context as it left it.       *)
(***************************************************************************)
PayloadInput == "payload"
InvoiceInput == "invoice"
NoneInput == "none"

NewContext ==
    [invoice |-> None,
     results |-> [a \in AgentNames |-> None],
     validation_results |-> <<>>,
     compliance_results |-> <<>>,
     approval_info |-> None,
     approval_decision |-> None,
     executed_agents |-> <<>>,
     skipped_agents |-> <<>>]

\* Invoice(...) as _create_invoice_object builds it: the status and the
\* confidence score keep the constructor's defaults
NewInvoice == [processing_status |-> "pending", confidence_score |-> None]

Out(result, context) == [result |-> result, context |-> context]

\* "Invoice object or context containing invoice"
HasInvoice(input_data, context) == input_data = InvoiceInput \/ context.invoice # None

DocumentParserAgent_process(input_data, context, o) ==
    IF o.kind = "fault"
    THEN Out(add_error(ProcessingResult, <<"Document parsing failed", "fault">>), context)
    ELSE Out([ProcessingResult EXCEPT !.confidence_score = o.confidence_score], context)

DataExtractionAgent_process(input_data, context, o) ==
    IF o.kind = "fault"
    THEN Out(add_error(ProcessingResult, <<"Data extraction failed", "fault">>), context)
    ELSE Out([ProcessingResult EXCEPT !.confidence_score =
                  _calculate_extraction_confidence(TRUE, o.present_critical,
                                                   o.present_optional, o.invoice)],
             IF o.invoice THEN [context EXCEPT !.invoice = Some(NewInvoice)] ELSE context)

ValidationAgent_process(input_data, context, o) ==
    IF ~HasInvoice(input_data, context)
    THEN Out(add_error(ProcessingResult, <<"Validation failed", "No invoice found in input or context">>),
             context)
    ELSE IF o.kind = "fault"
    THEN Out(add_error(ProcessingResult, <<"Validation failed", "fault">>), context)
    ELSE LET validation_results == o.checks
             validation_score == _calculate_validation_score(validation_results)
             status == IF GE(validation_score, Rat(9, 10)) THEN "validated"
                       ELSE IF GE(validation_score, Rat(7, 10)) THEN "validated"
                       ELSE "error"
             invoice == [context.invoice[1] EXCEPT !.processing_status = status]
         IN  Out([confidence_score |-> validation_score,
                  errors |-> Messages(validation_results, "error", "Validation error"),
                  warnings |-> Messages(validation_results, "warning", "Validation warning")],
                 [context EXCEPT !.validation_results = validation_results,
                                 !.invoice = Some(invoice)])

\* variant of the stage below that marks a compliant invoice as validated
RegionalComplianceAgent_process_validating(input_data, context, o) ==
    IF ~HasInvoice(input_data, context)
    THEN Out(add_error(ProcessingResult,
                       <<"Regional compliance check failed", "No invoice found in input or context">>),
             context)
    ELSE IF o.kind = "fault"
    THEN Out(add_error(ProcessingResult, <<"Regional compliance check failed", "fault">>), context)
    ELSE LET compliance_results == o.checks
             compliance_score == _calculate_compliance_score(compliance_results)
             invoice == IF GE(compliance_score, Rat(7, 10))
                        THEN [context.invoice[1] EXCEPT !.processing_status = "validated"]
                        ELSE [context.invoice[1] EXCEPT !.processing_status = "error"]
             region_warning == IF o.region_valid THEN <<>>
                               ELSE << <<"Invalid region", "defaulting to US">> >>
         IN  Out([confidence_score |-> compliance_score,
                  errors |-> Messages(compliance_results, "error", "Compliance error"),
                  warnings |-> region_warning
                               \o Messages(compliance_results, "warning", "Compliance warning")],
                 [context EXCEPT !.compliance_results = compliance_results,
                                 !.approval_info = Some(o.approval_info),
                                 !.invoice = Some(invoice)])

RegionalComplianceAgent_process(input_data, context, o) ==
    IF ~HasInvoice(input_data, context)
    THEN Out(add_error(ProcessingResult,
                       <<"Regional compliance check failed", "No invoice found in input or context">>),
             context)
    ELSE IF o.kind = "fault"
    THEN Out(add_error(ProcessingResult, <<"Regional compliance check failed", "fault">>), context)
    ELSE LET compliance_results == o.checks
             compliance_score == _calculate_compliance_score(compliance_results)
             invoice == IF GE(compliance_score, Rat(7, 10)) THEN context.invoice[1]
                        ELSE [context.invoice[1] EXCEPT !.processing_status = "error"]
             region_warning == IF o.region_valid THEN <<>>
                               ELSE << <<"Invalid region", "defaulting to US">> >>
         IN  Out([confidence_score |-> compliance_score,
                  errors |-> Messages(compliance_results, "error", "Compliance error"),
                  warnings |-> region_warning
                               \o Messages(compliance_results, "warning", "Compliance warning")],
                 [context EXCEPT !.compliance_results = compliance_results,
                                 !.approval_info = Some(o.approval_info),
                                 !.invoice = Some(invoice)])

\* The invoice is changed in place: a decision applied before a later
\* statement raises stays applied.
ApprovalAgent_process(input_data, context, o) ==
    IF ~HasInvoice(input_data, context)
    THEN Out(add_error(ProcessingResult,
                       <<"Approval decision failed", "No invoice found in input or context">>),
             context)
    ELSE LET invoice == context.invoice[1]
             approval_factors == _gather_approval_factors(invoice, context)
             made == _make_approval_decision(approval_factors)
             approval_decision == made[1]
             applied == _apply_approval_decision(invoice, approval_decision)
             decision_confidence == _calculate_decision_confidence(approval_factors, approval_decision)
         IN  IF made = Raised
             THEN Out(add_error(ProcessingResult, <<"Approval decision failed", "TypeError">>), context)
             ELSE IF decision_confidence = Raised
             THEN Out(add_error(ProcessingResult, <<"Approval decision failed", "TypeError">>),
                      [context EXCEPT !.invoice = Some(applied)])
             ELSE Out([confidence_score |-> Rat(decision_confidence[1], 100),
                       errors |-> <<>>,
                       warnings |-> [k \in 1..Len(approval_decision.warnings) |->
                                        <<"Approval warning", approval_decision.warnings[k]>>]],
                      [context EXCEPT !.approval_decision = Some(approval_decision),
                                      !.invoice = Some(applied)])

AuditAgent_process(input_data, context, o) ==
    IF o.kind = "fault"
    THEN Out(add_error(ProcessingResult, <<"Audit logging failed", "fault">>), context)
    ELSE Out([ProcessingResult EXCEPT !.confidence_score = Rat(1, 1)], context)

\* agent.process(input_data, context) of the registered agent
process(agent, input_data, context, o) ==
    CASE agent = "document_parser" -> DocumentParserAgent_process(input_data, context, o)
      [] agent = "data_extraction" -> DataExtractionAgent_process(input_data, context, o)
      [] agent = "validation" -> ValidationAgent_process(input_data, context, o)
      [] agent = "regional_compliance" -> RegionalComplianceAgent_process(input_data, context, o)
      [] agent = "approval" -> ApprovalAgent_process(input_data, context, o)
      [] agent = "audit" -> AuditAgent_process(input_data, context, o)

(***************************************************************************)
(* Workflow definitions                                                    *)
(***************************************************************************)
WorkflowStep(agent_name, required, condition) ==
    [agent_name |-> agent_name, required |-> required, condition |-> condition]

NoCondition == "none"

_define_workflows ==
    [standard |->
        << WorkflowStep("document_parser", TRUE, NoCondition),
           WorkflowStep("data_extraction", TRUE, NoCondition),
           WorkflowStep("validation", TRUE, NoCondition),
           WorkflowStep("regional_compliance", TRUE, NoCondition),
           WorkflowStep("approval", TRUE, NoCondition),
           WorkflowStep("audit", FALSE, NoCondition) >>,
     fast_track |->
        << WorkflowStep("document_parser", TRUE, NoCondition),
           WorkflowStep("data_extraction", TRUE, NoCondition),
           WorkflowStep("validation", FALSE, "_check_high_confidence"),
           WorkflowStep("regional_compliance", TRUE, NoCondition),
           WorkflowStep("approval", TRUE, NoCondition),
           WorkflowStep("audit", FALSE, NoCondition) >>,
     detailed_review |->
        << WorkflowStep("document_parser", TRUE, NoCondition),
           WorkflowStep("data_extraction", TRUE, NoCondition),
           WorkflowStep("validation", TRUE, NoCondition),
           WorkflowStep("regional_compliance", TRUE, NoCondition),
           WorkflowStep("approval", TRUE, NoCondition),
           WorkflowStep("audit", TRUE, NoCondition) >>,
     compliance_only |->
        << WorkflowStep("document_parser", TRUE, NoCondition),
           WorkflowStep("data_extraction", TRUE, NoCondition),
           WorkflowStep("validation", TRUE, NoCondition),
           WorkflowStep("regional_compliance", TRUE, NoCondition),
           WorkflowStep("audit", TRUE, NoCondition) >>]

\* the names a caller may pass: the WorkflowType values and any other string
WorkflowTypeInputs ==
    {"standard", "fast_track", "detailed_review", "compliance_only", "custom", "no_such_workflow"}

\* True when the extraction result's confidence is at least 0.95
_check_high_confidence(ctx) ==
    LET extraction_result == ctx.results["data_extraction"]
    IN  IF extraction_result # None
        THEN GE(extraction_result[1].confidence_score, Rat(95, 100))
        ELSE FALSE

\* WorkflowStep.should_execute: the step runs when its condition returns True
should_execute(step, ctx) ==
    IF step.condition # NoCondition THEN _check_high_confidence(ctx) ELSE TRUE

_determine_step_input(agent_name, ctx) ==
    IF agent_name = "document_parser" THEN PayloadInput
    ELSE IF agent_name = "data_extraction" THEN PayloadInput
    ELSE IF ctx.invoice # None THEN InvoiceInput ELSE PayloadInput

\* approval_result is a ProcessingResult: it has no attribute requires_manual_review
HasRequiresManualReview(approval_result) == FALSE

_determine_workflow_status(wr, invoice) ==
    IF wr.workflow_execution.failed_steps > 0 THEN "failed"
    ELSE IF invoice # None /\ invoice[1].processing_status = "approved" THEN "approved"
    ELSE IF invoice # None /\ invoice[1].processing_status = "rejected" THEN "rejected"
    ELSE IF invoice # None /\ invoice[1].processing_status = "error" THEN "failed"
    ELSE IF wr.results["approval"] # None /\ HasRequiresManualReview(wr.results["approval"][1])
         THEN "pending_review"
    ELSE "completed"

\* one run-level entry: its kind, the stage it names, and the stage messages in it
RunMessage(kind, agent_name, detail) == [kind |-> kind, agent |-> agent_name, detail |-> detail]

\* dicts keep insertion order: the results are visited in the order they were stored
RECURSIVE CollectLoop(_, _, _, _)
CollectLoop(results, order, field, k) ==
    IF k = 0 THEN <<>>
    ELSE LET agent_name == order[k]
             msgs == results[agent_name][1][field]
         IN  CollectLoop(results, order, field, k - 1)
             \o [j \in 1..Len(msgs) |-> RunMessage("stage", agent_name, <<msgs[j]>>)]

_collect_workflow_errors(results, order) == CollectLoop(results, order, "errors", Len(order))

_collect_workflow_warnings(results, order) == CollectLoop(results, order, "warnings", Len(order))

NewWorkflowResult(total_steps) ==
    [status |-> "processing",
     invoice |-> None,
     results |-> [a \in AgentNames |-> None],
     errors |-> <<>>,
     warnings |-> <<>>,
     confidence_score |-> Some(0),
     workflow_execution |-> [total_steps |-> total_steps, executed_steps |-> 0,
                             skipped_steps |-> 0, failed_steps |-> 0]]

\* "if len(self.execution_history) > 1000" and "[-1000:]"
HistoryLimit == 1000

\* variant of the slice below that keeps the oldest n elements
Last_oldest(history, n) ==
    IF Len(history) > n THEN SubSeq(history, 1, n) ELSE history

\* the last n elements of a list: history[-n:]
Last(history, n) ==
    IF Len(history) > n THEN SubSeq(history, Len(history) - n + 1, Len(history)) ELSE history

\* the history with the run's entry appended and cut to the most recent
\* entries; the session_id of a run is the number of the call
_store_execution_history(history, wr, ctx, session_id, workflow_name) ==
    LET history_entry == [session_id |-> session_id,
                          workflow_type |-> workflow_name,
                          status |-> wr.status,
                          executed_agents |-> ctx.executed_agents,
                          skipped_agents |-> ctx.skipped_agents,
                          error_count |-> Len(wr.errors),
                          warning_count |-> Len(wr.warnings)]
        appended == Append(history, history_entry)
    IN  IF Len(appended) > HistoryLimit THEN Last(appended, HistoryLimit) ELSE appended

(***************************************************************************)
(* State                                                                   *)
(***************************************************************************)
VARIABLES
    pc,                \* where the running entry point is: "idle", "loop", "execute", "store", "returned"
    entry,             \* the entry point called: "none", "execute_workflow", "process_invoice"
    workflow_type,     \* the workflow name passed to execute_workflow
    step_index,        \* the loop position in the workflow's step list (from 1)
    context,           \* the run context
    workflow_result,   \* the result execute_workflow builds
    pipeline_result,   \* the result process_invoice builds
    call,              \* the activation of BaseAgent.execute in progress or last finished
    processing_stats,  \* BaseAgent.processing_stats of every agent
    coordinator_stats, \* AgentCoordinator.processing_stats
    runs,              \* calls of an entry point so far
    raised,            \* the entry point raised to its caller instead of returning
    workflows,         \* WorkflowManager.workflows: name -> step list, None when absent
    workflow_steps,    \* the step list execute_workflow looked up when the run started
    created,           \* what the last call of create_custom_workflow returned
    decisions,         \* what the decision engine returned, invocation by invocation
    scoring,           \* a check list, what the scoring functions returned on it, and
                       \* the list and scores before the last check was appended
    batch_result,      \* process_batch: its batch_result, the item it is at, and where
                       \* it stands (off, item, called, returned)
    system_health,     \* what the last call of get_system_health returned
    execution_history  \* WorkflowManager.execution_history

vars == <<pc, entry, workflow_type, step_index, context, workflow_result, pipeline_result,
          call, processing_stats, coordinator_stats, runs, raised, workflows, workflow_steps,
          created, decisions, scoring, batch_result, system_health, execution_history>>

\* the three scoring functions, by the stage that owns them
ScoringImplementations == {"validation", "regional_compliance", "audit"}

NoScoring ==
    [results |-> <<>>, score |-> [i \in ScoringImplementations |-> None], previous |-> None]

\* no process_batch call is under way
NoBatch ==
    [at |-> "off", total_files |-> 0, item |-> 0, processed |-> 0, successful |-> 0,
     failed |-> 0, pending_review |-> 0, results |-> <<>>]

NoCall ==
    [agent |-> "none", input_data |-> NoneInput, attempt |-> 0, attempts |-> 0, pauses |-> 0,
     result |-> ProcessingResult, returned |-> None, succeeded |-> FALSE]

NewStats == [executions |-> 0, successes |-> 0, failures |-> 0]

NewPipelineResult ==
    [status |-> "processing",
     invoice |-> None,
     results |-> [a \in AgentNames |-> None],
     errors |-> <<>>,
     warnings |-> <<>>,
     confidence_score |-> Some(0)]

NewCoordinatorStats == [total_processed |-> 0, successful |-> 0, failed |-> 0, pending_review |-> 0]

\* self.workflows = self._define_workflows(), seen through .get on the names used
InitialWorkflows ==
    [name \in WorkflowTypeInputs |->
        IF name \in DOMAIN _define_workflows THEN Some(_define_workflows[name]) ELSE None]

Init ==
    /\ pc = "idle"
    /\ entry = "none"
    /\ workflow_type = "none"
    /\ step_index = 0
    /\ context = NewContext
    /\ workflow_result = NewWorkflowResult(0)
    /\ pipeline_result = NewPipelineResult
    /\ call = NoCall
    /\ processing_stats = [a \in AgentNames |-> NewStats]
    /\ coordinator_stats = NewCoordinatorStats
    /\ runs = 0
    /\ raised = FALSE
    /\ workflows = InitialWorkflows
    /\ workflow_steps = <<>>
    /\ created = None
    /\ decisions = <<>>
    /\ scoring = NoScoring
    /\ batch_result = NoBatch
    /\ system_health = None
    /\ execution_history = <<>>

\* self.workflows.get(name)
WorkflowsGet(registry, name) == IF name \in DOMAIN registry THEN registry[name] ELSE None

\* variant of the loop position below that walks the step list from its end
CurrentStep_backwards == workflow_steps[Len(workflow_steps) + 1 - step_index]

CurrentStep == workflow_steps[step_index]

(***************************************************************************)
(* BaseAgent.execute                                                       *)
(***************************************************************************)
\* variant of the loop bound below with one attempt more
AttemptsRemain_one_more(attempt, agent) == attempt <= max_retries[agent] + 1

\* range(self.max_retries + 1): the loop variable attempt runs from 0 to max_retries
AttemptsRemain(attempt, agent) == attempt <= max_retries[agent]

\* "if attempt < self.max_retries": another attempt follows, sleep first
SleepsBeforeRetry(attempt, agent) == attempt < max_retries[agent]

\* variant of the test below that takes a result with errors for no result
IsTruthy_without_errors(processing_result) == Len(processing_result.errors) = 0

\* "if processing_result:" -- ProcessingResult defines neither __bool__ nor
\* __len__, so every result is true, whatever its errors and its score
IsTruthy(processing_result) == TRUE

\* lines 62-70: the call is counted and the executor's own result is created
BeginExecute(agent, input_data) ==
    /\ processing_stats' = [processing_stats EXCEPT ![agent].executions = @ + 1]
    /\ call' = [NoCall EXCEPT !.agent = agent, !.input_data = input_data]

\* an attempt whose process call returns a result: counted as a success and returned
AttemptReturns ==
    /\ pc = "execute"
    /\ AttemptsRemain(call.attempt, call.agent)
    /\ \E o \in Outcomes(call.agent) :
          LET out == process(call.agent, call.input_data, context, o)
          IN  /\ context' = out.context
              /\ IF IsTruthy(out.result)
                 THEN /\ call' = [call EXCEPT !.attempts = @ + 1,
                                              !.returned = Some(out.result),
                                              !.succeeded = TRUE]
                      /\ processing_stats' =
                             [processing_stats EXCEPT ![call.agent].successes = @ + 1]
                      /\ pc' = "store"
                 ELSE /\ call' = [call EXCEPT !.attempts = @ + 1, !.attempt = @ + 1]
                      /\ UNCHANGED <<processing_stats, pc>>
    /\ UNCHANGED <<entry, workflow_type, step_index, workflow_result, pipeline_result,
                   coordinator_stats, runs, raised,
                   workflows, workflow_steps, created, decisions, scoring, batch_result,
                   system_health, execution_history>>

\* variant of the attempt below that counts every raising attempt as a failure
AttemptRaises_counted ==
    /\ pc = "execute"
    /\ AttemptsRemain(call.attempt, call.agent)
    /\ call' = [call EXCEPT
                   !.attempts = @ + 1,
                   !.result = add_error(@, <<"Attempt failed", ToString(call.attempt + 1)>>),
                   !.pauses = IF SleepsBeforeRetry(call.attempt, call.agent) THEN @ + 1 ELSE @,
                   !.attempt = @ + 1]
    /\ processing_stats' = [processing_stats EXCEPT ![call.agent].failures = @ + 1]
    /\ UNCHANGED <<pc, entry, workflow_type, step_index, context, workflow_result,
                   pipeline_result, coordinator_stats, runs, raised,
                   workflows, workflow_steps, created, decisions, scoring, batch_result,
                   system_health, execution_history>>

\* an attempt whose process call raises: the error is recorded, and the
\* executor sleeps when another attempt follows.  The six stages of this
\* repository catch every Exception inside process (their Fault outcome); the
\* executor serves any BaseAgent subclass, whose process may raise.
AttemptRaises ==
    /\ pc = "execute"
    /\ AttemptsRemain(call.attempt, call.agent)
    /\ call' = [call EXCEPT
                   !.attempts = @ + 1,
                   !.result = add_error(@, <<"Attempt failed", ToString(call.attempt + 1)>>),
                   !.pauses = IF SleepsBeforeRetry(call.attempt, call.agent) THEN @ + 1 ELSE @,
                   !.attempt = @ + 1]
    /\ UNCHANGED <<pc, entry, workflow_type, step_index, context, workflow_result,
                   pipeline_result, processing_stats, coordinator_stats, runs, raised,
                   workflows, workflow_steps, created, decisions, scoring, batch_result,
                   system_health, execution_history>>

\* lines 108-120: every attempt raised
AllAttemptsFailed ==
    /\ pc = "execute"
    /\ ~AttemptsRemain(call.attempt, call.agent)
    /\ processing_stats' = [processing_stats EXCEPT ![call.agent].failures = @ + 1]
    /\ call' = [call EXCEPT !.returned = Some(call.result)]
    /\ pc' = "store"
    /\ UNCHANGED <<entry, workflow_type, step_index, context, workflow_result, pipeline_result,
                   coordinator_stats, runs, raised,
                   workflows, workflow_steps, created, decisions, scoring, batch_result,
                   system_health, execution_history>>

(***************************************************************************)
(* WorkflowManager.execute_workflow                                        *)
(***************************************************************************)
\* the step list of a name, empty when the name has none
StepsOf(registry, name) ==
    IF WorkflowsGet(registry, name) # None THEN WorkflowsGet(registry, name)[1] ELSE <<>>

\* variant of the test below that lets every name through
Registered_any(registry, name) == TRUE

\* "if not workflow_steps": the name has a step list and the list is not empty
Registered(registry, name) ==
    WorkflowsGet(registry, name) # None /\ Len(StepsOf(registry, name)) > 0

\* lines 125-166: an unknown name (or an empty step list) raises ValueError
ExecuteWorkflow ==
    /\ pc \in {"idle", "returned"}
    /\ runs < MaxRuns
    /\ runs' = runs + 1
    /\ entry' = "execute_workflow"
    /\ call' = NoCall
    /\ context' = NewContext
    /\ \E name \in WorkflowTypeInputs :
          /\ workflow_type' = name
          /\ IF Registered(workflows, name)
             THEN /\ workflow_result' = NewWorkflowResult(Len(StepsOf(workflows, name)))
                  /\ workflow_steps' = StepsOf(workflows, name)
                  /\ step_index' = 1
                  /\ pc' = "loop"
                  /\ raised' = FALSE
             ELSE /\ workflow_result' = NewWorkflowResult(0)
                  /\ workflow_steps' = <<>>
                  /\ step_index' = 0
                  /\ pc' = "returned"
                  /\ raised' = TRUE
    /\ pipeline_result' = NewPipelineResult
    /\ UNCHANGED <<processing_stats, coordinator_stats, workflows, created, decisions, scoring, batch_result,
                   system_health, execution_history>>

\* variant of the skip below that counts the step as executed too
SkipStep_counted ==
    /\ pc = "loop"
    /\ entry = "execute_workflow"
    /\ step_index <= Len(workflow_steps)
    /\ ~should_execute(CurrentStep, context)
    /\ context' = [context EXCEPT !.skipped_agents = Append(@, CurrentStep.agent_name)]
    /\ workflow_result' = [workflow_result EXCEPT !.workflow_execution.skipped_steps = @ + 1,
                                                  !.workflow_execution.executed_steps = @ + 1]
    /\ step_index' = step_index + 1
    /\ UNCHANGED <<pc, entry, workflow_type, call, pipeline_result, processing_stats,
                   coordinator_stats, runs, raised,
                   workflows, workflow_steps, created, decisions, scoring, batch_result,
                   system_health, execution_history>>

\* lines 175-179: the step's condition says not to execute it
SkipStep ==
    /\ pc = "loop"
    /\ entry = "execute_workflow"
    /\ step_index <= Len(workflow_steps)
    /\ ~should_execute(CurrentStep, context)
    /\ context' = [context EXCEPT !.skipped_agents = Append(@, CurrentStep.agent_name)]
    /\ workflow_result' = [workflow_result EXCEPT !.workflow_execution.skipped_steps = @ + 1]
    /\ step_index' = step_index + 1
    /\ UNCHANGED <<pc, entry, workflow_type, call, pipeline_result, processing_stats,
                   coordinator_stats, runs, raised,
                   workflows, workflow_steps, created, decisions, scoring, batch_result,
                   system_health, execution_history>>

\* lines 181-192: the agent is looked up and its executor is called
ExecuteStep ==
    /\ pc = "loop"
    /\ entry = "execute_workflow"
    /\ step_index <= Len(workflow_steps)
    /\ should_execute(CurrentStep, context)
    /\ CurrentStep.agent_name \in AgentNames
    /\ BeginExecute(CurrentStep.agent_name, _determine_step_input(CurrentStep.agent_name, context))
    /\ pc' = "execute"
    /\ UNCHANGED <<entry, workflow_type, step_index, context, workflow_result, pipeline_result,
                   coordinator_stats, runs, raised,
                   workflows, workflow_steps, created, decisions, scoring, batch_result,
                   system_health, execution_history>>

\* variant of the guard below under which no step's errors abort the run
RequiredStepFailed_never(result, step) == FALSE

\* variant of the handler below that sets the status and drops the error text
Aborted_without_error(wr, e) == [wr EXCEPT !.status = "failed"]

\* the outer "except Exception as e" (lines 231-234)
Aborted(wr, e) == [wr EXCEPT !.status = "failed", !.errors = Append(@, e)]

\* lines 184-186 and 206-214: the step's agent is not in the coordinator's
\* registry; the ValueError counts a failed step, aborts the run when the
\* step is required and is appended to the run's errors when it is optional
StepAgentMissing ==
    /\ pc = "loop"
    /\ entry = "execute_workflow"
    /\ step_index <= Len(workflow_steps)
    /\ should_execute(CurrentStep, context)
    /\ CurrentStep.agent_name \notin AgentNames
    /\ LET step == CurrentStep
           counted == [workflow_result EXCEPT !.workflow_execution.failed_steps = @ + 1]
           e == << <<"Agent not found", step.agent_name>> >>
           aborted == Aborted(counted,
                              RunMessage("Required workflow step failed", step.agent_name, e))
       IN  IF step.required
           THEN /\ workflow_result' = aborted
                /\ execution_history' =
                       _store_execution_history(execution_history, aborted, context,
                                                runs, workflow_type)
                /\ pc' = "returned"
                /\ UNCHANGED step_index
           ELSE /\ workflow_result' =
                      [counted EXCEPT !.errors =
                          Append(@, RunMessage("Optional step failed", step.agent_name, e))]
                /\ pc' = "loop"
                /\ step_index' = step_index + 1
                /\ UNCHANGED execution_history
    /\ UNCHANGED <<entry, workflow_type, context, call, pipeline_result, processing_stats,
                   coordinator_stats, runs, raised, workflows, workflow_steps, created,
                   decisions, scoring, batch_result, system_health>>

\* "if result.errors and step.required": the step's failure aborts the run
RequiredStepFailed(result, step) == Len(result.errors) > 0 /\ step.required

\* the result with the step's result stored (lines 195-198)
Stored(wr, agent_name, result) ==
    [wr EXCEPT !.results[agent_name] = Some(result),
               !.workflow_execution.executed_steps = @ + 1]

\* lines 194-214 and, when a required step's result carries errors, 231-245:
\* the run is aborted with status failed and the exception text as its error
StoreResult ==
    /\ pc = "store"
    /\ entry = "execute_workflow"
    /\ LET step == CurrentStep
           result == call.returned[1]
           stored == Stored(workflow_result, step.agent_name, result)
           aborted == Aborted([stored EXCEPT !.workflow_execution.failed_steps = @ + 1],
                              RunMessage("Required workflow step failed",
                                         step.agent_name, result.errors))
       IN  /\ context' = [context EXCEPT !.results[step.agent_name] = Some(result),
                                         !.executed_agents = Append(@, step.agent_name)]
           /\ IF RequiredStepFailed(result, step)
              THEN /\ workflow_result' = aborted
                   /\ execution_history' =
                          _store_execution_history(execution_history, aborted, context',
                                                   runs, workflow_type)
                   /\ pc' = "returned"
                   /\ UNCHANGED step_index
              ELSE /\ workflow_result' = stored
                   /\ pc' = "loop"
                   /\ step_index' = step_index + 1
                   /\ UNCHANGED execution_history
    /\ UNCHANGED <<entry, workflow_type, call, pipeline_result, processing_stats,
                   coordinator_stats, runs, raised,
                   workflows, workflow_steps, created, decisions, scoring, batch_result,
                   system_health>>

\* lines 216-245: after the last step
FinalizeWorkflow ==
    /\ pc = "loop"
    /\ entry = "execute_workflow"
    /\ step_index > Len(workflow_steps)
    /\ LET final_invoice == context.invoice
           with_invoice == IF final_invoice # None
                           THEN [workflow_result EXCEPT
                                    !.invoice = final_invoice,
                                    !.confidence_score = final_invoice[1].confidence_score]
                           ELSE workflow_result
           status == _determine_workflow_status(with_invoice, final_invoice)
           finalized ==
               [with_invoice EXCEPT
                   !.status = status,
                   !.errors = @ \o _collect_workflow_errors(with_invoice.results,
                                                            context.executed_agents),
                   !.warnings = @ \o _collect_workflow_warnings(with_invoice.results,
                                                                context.executed_agents)]
       IN  /\ workflow_result' = finalized
           /\ execution_history' =
                  _store_execution_history(execution_history, finalized, context,
                                           runs, workflow_type)
    /\ pc' = "returned"
    /\ UNCHANGED <<entry, workflow_type, step_index, context, call, pipeline_result,
                   processing_stats, coordinator_stats, runs, raised,
                   workflows, workflow_steps, created, decisions, scoring, batch_result,
                   system_health>>

(***************************************************************************)
(* AgentCoordinator.process_invoice                                        *)
(***************************************************************************)
\* the order of the six _execute_agent calls
PipelineAgents ==
    <<"document_parser", "data_extraction", "validation", "regional_compliance",
      "approval", "audit">>

\* the stages whose errors abort process_invoice (lines 104 and 111)
PipelineChecked == {"document_parser", "data_extraction"}

\* input_data for the first two calls, context.get("invoice") for the others
PipelineInput(agent_name, ctx) ==
    IF agent_name \in {"document_parser", "data_extraction"} THEN PayloadInput
    ELSE IF ctx.invoice # None THEN InvoiceInput ELSE NoneInput

_determine_final_status(results, invoice) ==
    IF \E a \in {"document_parser", "data_extraction"} :
           results[a] # None /\ Len(results[a][1].errors) > 0
    THEN "failed"
    ELSE IF invoice # None /\ invoice[1].processing_status = "approved" THEN "approved"
    ELSE IF invoice # None /\ invoice[1].processing_status = "rejected" THEN "rejected"
    ELSE IF invoice # None /\ invoice[1].processing_status = "error" THEN "failed"
    ELSE IF results["approval"] # None /\ HasRequiresManualReview(results["approval"][1])
         THEN "pending_review"
    ELSE "completed"

_update_statistics(stats, status) ==
    [stats EXCEPT
        !.total_processed = @ + 1,
        !.successful = IF status = "approved" THEN @ + 1 ELSE @,
        !.failed = IF status = "failed" THEN @ + 1 ELSE @,
        !.pending_review = IF status = "pending_review" THEN @ + 1 ELSE @]

\* lines 75-95
ProcessInvoice ==
    /\ pc \in {"idle", "returned"}
    /\ runs < MaxRuns
    /\ runs' = runs + 1
    /\ entry' = "process_invoice"
    /\ workflow_type' = "none"
    /\ call' = NoCall
    /\ context' = NewContext
    /\ pipeline_result' = NewPipelineResult
    /\ workflow_result' = NewWorkflowResult(0)
    /\ step_index' = 1
    /\ pc' = "loop"
    /\ raised' = FALSE
    /\ workflow_steps' = <<>>
    /\ UNCHANGED <<processing_stats, coordinator_stats, workflows, created, decisions, scoring, batch_result,
                   system_health, execution_history>>

\* _execute_agent up to its call of agent.execute (lines 164-172)
ExecuteAgent ==
    /\ pc = "loop"
    /\ entry = "process_invoice"
    /\ step_index <= Len(PipelineAgents)
    /\ BeginExecute(PipelineAgents[step_index],
                    PipelineInput(PipelineAgents[step_index], context))
    /\ pc' = "execute"
    /\ UNCHANGED <<entry, workflow_type, step_index, context, workflow_result, pipeline_result,
                   coordinator_stats, runs, raised,
                   workflows, workflow_steps, created, decisions, scoring, batch_result,
                   system_health, execution_history>>

\* the rest of _execute_agent (line 175) and the statements after the call:
\* only the parser's and the extraction's errors abort the pipeline (146-150)
StoreAgentResult ==
    /\ pc = "store"
    /\ entry = "process_invoice"
    /\ LET agent_name == PipelineAgents[step_index]
           result == call.returned[1]
           stored == [pipeline_result EXCEPT !.results[agent_name] = Some(result)]
       IN  /\ context' = [context EXCEPT !.results[agent_name] = Some(result)]
           /\ IF agent_name \in PipelineChecked /\ Len(result.errors) > 0
              THEN /\ pipeline_result' =
                         [stored EXCEPT
                             !.status = "failed",
                             !.errors = Append(@, RunMessage("Pipeline stage failed",
                                                             agent_name, result.errors))]
                   /\ coordinator_stats' = [coordinator_stats EXCEPT !.failed = @ + 1]
                   /\ pc' = "returned"
                   /\ UNCHANGED step_index
              ELSE /\ pipeline_result' = stored
                   /\ pc' = "loop"
                   /\ step_index' = step_index + 1
                   /\ UNCHANGED coordinator_stats
    /\ UNCHANGED <<entry, workflow_type, workflow_result, call, processing_stats, runs, raised,
                   workflows, workflow_steps, created, decisions, scoring, batch_result,
                   system_health, execution_history>>

\* lines 130-144
FinalizePipeline ==
    /\ pc = "loop"
    /\ entry = "process_invoice"
    /\ step_index > Len(PipelineAgents)
    /\ LET final_invoice == context.invoice
           with_invoice == IF final_invoice # None
                           THEN [pipeline_result EXCEPT
                                    !.invoice = final_invoice,
                                    !.confidence_score =
                                        IF final_invoice[1].confidence_score = None
                                        THEN Some(0) ELSE final_invoice[1].confidence_score]
                           ELSE pipeline_result
           status == _determine_final_status(with_invoice.results, final_invoice)
       IN  /\ pipeline_result' =
                  [with_invoice EXCEPT
                      !.status = status,
                      !.errors = _collect_workflow_errors(with_invoice.results, PipelineAgents),
                      !.warnings = _collect_workflow_warnings(with_invoice.results, PipelineAgents)]
           /\ coordinator_stats' = _update_statistics(coordinator_stats, status)
    /\ pc' = "returned"
    /\ UNCHANGED <<entry, workflow_type, step_index, context, workflow_result, call,
                   processing_stats, runs, raised,
                   workflows, workflow_steps, created, decisions, scoring, batch_result,
                   system_health, execution_history>>

Next ==
    \/ ExecuteWorkflow
    \/ SkipStep
    \/ ExecuteStep
    \/ AttemptReturns
    \/ AttemptRaises
    \/ AllAttemptsFailed
    \/ StoreResult
    \/ FinalizeWorkflow
    \/ ProcessInvoice
    \/ ExecuteAgent
    \/ StoreAgentResult
    \/ FinalizePipeline

Spec == Init /\ [][Next]_vars

(***************************************************************************)
(* WorkflowManager.create_custom_workflow, and the runs of the workflows   *)
(* it registers                                                            *)
(***************************************************************************)
\* a step definition as the caller passes it; is_dict is FALSE for an element
\* that is not a dict (step_def.get then raises)
StepDef(agent_name, required, condition) ==
    [is_dict |-> TRUE, agent_name |-> agent_name, required |-> required, condition |-> condition]

NotADict == [is_dict |-> FALSE, agent_name |-> "none", required |-> TRUE, condition |-> "none"]

\* the step lists passed to create_custom_workflow
CustomStepLists ==
    { << StepDef("document_parser", TRUE, "none"), StepDef("ghost", TRUE, "none"),
         StepDef("audit", TRUE, "none") >>,
      << StepDef("document_parser", TRUE, "none"), StepDef("ghost", FALSE, "none"),
         StepDef("audit", FALSE, "none") >>,
      << StepDef("document_parser", TRUE, "none"), StepDef("data_extraction", TRUE, "none"),
         StepDef("validation", FALSE, "high_confidence") >>,
      << StepDef("document_parser", TRUE, "none"), NotADict >>,
      << >> }

\* the names passed to create_custom_workflow
CustomNames == {"custom"}

\* lines 336-346: one WorkflowStep per step definition
CustomStep(step_def) ==
    WorkflowStep(step_def.agent_name, step_def.required,
                 IF step_def.condition = "high_confidence" THEN "_check_high_confidence"
                 ELSE NoCondition)

\* create_custom_workflow is called between runs
CreateCustomWorkflow ==
    /\ pc \in {"idle", "returned"}
    /\ \E name \in CustomNames, steps \in CustomStepLists :
          IF \A k \in 1..Len(steps) : steps[k].is_dict
          THEN /\ workflows' = [workflows EXCEPT
                                   ![name] = Some([k \in 1..Len(steps) |-> CustomStep(steps[k])])]
               /\ created' = Some(TRUE)
          ELSE /\ created' = Some(FALSE)
               /\ UNCHANGED workflows
    /\ UNCHANGED <<pc, entry, workflow_type, step_index, context, workflow_result,
                   pipeline_result, call, processing_stats, coordinator_stats, runs, raised,
                   workflow_steps, decisions, scoring, batch_result,
                   system_health, execution_history>>

NextCustom ==
    \/ CreateCustomWorkflow
    \/ ExecuteWorkflow
    \/ SkipStep
    \/ ExecuteStep
    \/ StepAgentMissing
    \/ AttemptReturns
    \/ AttemptRaises
    \/ AllAttemptsFailed
    \/ StoreResult
    \/ FinalizeWorkflow

SpecCustom == Init /\ [][NextCustom]_vars

(***************************************************************************)
(* The decision engine as a function of its factors: the context holds the *)
(* inputs, drawn from bounded sets, and each step invokes the engine once  *)
(* more on them.                                                           *)
(***************************************************************************)
\* Bound: how many times the engine is invoked on the same factors.
MaxInvocations == 2

\* n checks alike
Repeat(check, n) == [k \in 1..n |-> check]

\* context["validation_results"]: empty, clean, a warning, a low error, a high
\* error, and lists at and above the counts 5 (errors) and 10 (warnings)
EngineValidationLists ==
    ValidationCheckLists \cup
    { << >>,
      Repeat(Check("error", "low", "v5"), 5),
      Repeat(Check("error", "low", "v5"), 6),
      Repeat(Check("warning", "low", "v6"), 10),
      Repeat(Check("warning", "low", "v6"), 11) }

\* context["compliance_results"]
EngineComplianceLists == ComplianceCheckLists \cup { << >> }

\* context["approval_info"], absent or present
EngineApprovalInfos == {None} \cup {Some(info) : info \in ApprovalInfos}

\* Invoice.confidence_score, in hundredths: unset, and values around the two thresholds
EngineConfidences ==
    {None} \cup
    {Some(c) : c \in {50, validation_threshold - 1, validation_threshold, 80,
                      auto_approve_threshold - 1, auto_approve_threshold, 100}}

\* Invoice.processing_status when the approval stage is called
EngineStatuses == {"pending", "validated", "error"}

InitEngine ==
    /\ pc = "idle"
    /\ entry = "decision_engine"
    /\ workflow_type = "none"
    /\ step_index = 0
    /\ \E vr \in EngineValidationLists, cr \in EngineComplianceLists, ai \in EngineApprovalInfos,
          c \in EngineConfidences, st \in EngineStatuses :
          context = [NewContext EXCEPT
                        !.invoice = Some([processing_status |-> st, confidence_score |-> c]),
                        !.validation_results = vr,
                        !.compliance_results = cr,
                        !.approval_info = ai]
    /\ workflow_result = NewWorkflowResult(0)
    /\ pipeline_result = NewPipelineResult
    /\ call = NoCall
    /\ processing_stats = [a \in AgentNames |-> NewStats]
    /\ coordinator_stats = NewCoordinatorStats
    /\ runs = 0
    /\ raised = FALSE
    /\ workflows = InitialWorkflows
    /\ workflow_steps = <<>>
    /\ created = None
    /\ decisions = <<>>
    /\ scoring = NoScoring
    /\ batch_result = NoBatch
    /\ system_health = None
    /\ execution_history = <<>>

\* variant of the invocation below whose answer depends on the earlier invocations
EngineInvocation_remembering(invoice, ctx) ==
    IF decisions = <<>> THEN Returned(InitialDecision)
    ELSE Returned([InitialDecision EXCEPT !.decision = "approved"])

\* approval_agent.py lines 63-66: the factors are gathered and the engine is called
EngineInvocation(invoice, ctx) == _make_approval_decision(_gather_approval_factors(invoice, ctx))

\* one invocation of the engine on the factors of the context
Decide ==
    /\ entry = "decision_engine"
    /\ Len(decisions) < MaxInvocations
    /\ decisions' = Append(decisions, EngineInvocation(context.invoice[1], context))
    /\ UNCHANGED <<pc, entry, workflow_type, step_index, context, workflow_result,
                   pipeline_result, call, processing_stats, coordinator_stats, runs, raised,
                   workflows, workflow_steps, created, scoring, batch_result,
                   system_health, execution_history>>

NextEngine == Decide

SpecEngine == InitEngine /\ [][NextEngine]_vars

(***************************************************************************)
(* AgentCoordinator.process_batch: process_invoice is called on one file   *)
(* after the other and each outcome is entered in the batch_result.        *)
(***************************************************************************)
MaxFiles == 2

\* lines 271-285: the batch_result is set up for len(input_files) files
ProcessBatch ==
    /\ pc = "idle"
    /\ batch_result.at = "off"
    /\ \E n \in 0..MaxFiles :
          batch_result' = [NoBatch EXCEPT !.at = "item", !.total_files = n]
    /\ UNCHANGED <<pc, entry, workflow_type, step_index, context, workflow_result,
                   pipeline_result, call, processing_stats, coordinator_stats, runs, raised,
                   workflows, workflow_steps, created, decisions, scoring,
                   system_health, execution_history>>

\* line 290: process_invoice is called on the next file (its lines 75-95)
CallProcessInvoice ==
    /\ batch_result.at = "item"
    /\ batch_result.item < batch_result.total_files
    /\ batch_result' = [batch_result EXCEPT !.at = "called"]
    /\ runs' = runs + 1
    /\ entry' = "process_invoice"
    /\ workflow_type' = "none"
    /\ call' = NoCall
    /\ context' = NewContext
    /\ pipeline_result' = NewPipelineResult
    /\ workflow_result' = NewWorkflowResult(0)
    /\ step_index' = 1
    /\ pc' = "loop"
    /\ raised' = FALSE
    /\ workflow_steps' = <<>>
    /\ UNCHANGED <<processing_stats, coordinator_stats, workflows, created, decisions, scoring,
                   system_health, execution_history>>

\* variant of the entry below in which a failed file does not count as processed
Entered_uncounted(batch, has_raised, status) ==
    IF has_raised \/ status = "failed"
    THEN [batch EXCEPT !.failed = @ + 1, !.results = Append(@, "failed")]
    ELSE [batch EXCEPT
             !.results = Append(@, status),
             !.processed = @ + 1,
             !.successful = IF status = "approved" THEN @ + 1 ELSE @,
             !.pending_review = IF status = "pending_review" THEN @ + 1 ELSE @]

\* the entry of a file in the batch_result: lines 291-300 when process_invoice
\* returned, lines 302-309 when it raised
Entered(batch, has_raised, status) ==
    IF has_raised
    THEN [batch EXCEPT !.failed = @ + 1, !.results = Append(@, "failed")]
    ELSE [batch EXCEPT
             !.results = Append(@, status),
             !.processed = @ + 1,
             !.successful = IF status = "approved" THEN @ + 1 ELSE @,
             !.failed = IF status = "failed" THEN @ + 1 ELSE @,
             !.pending_review = IF status = "pending_review" THEN @ + 1 ELSE @]

\* lines 291-309: the call is over and the loop goes to the next file
RecordBatchItem ==
    /\ batch_result.at = "called"
    /\ pc = "returned"
    /\ batch_result' = [Entered(batch_result, raised, pipeline_result.status) EXCEPT
                           !.at = "item", !.item = @ + 1]
    /\ UNCHANGED <<pc, entry, workflow_type, step_index, context, workflow_result,
                   pipeline_result, call, processing_stats, coordinator_stats, runs, raised,
                   workflows, workflow_steps, created, decisions, scoring,
                   system_health, execution_history>>

\* lines 311-318: the loop is through and the batch_result is returned
ReturnBatch ==
    /\ batch_result.at = "item"
    /\ batch_result.item = batch_result.total_files
    /\ batch_result' = [batch_result EXCEPT !.at = "returned"]
    /\ UNCHANGED <<pc, entry, workflow_type, step_index, context, workflow_result,
                   pipeline_result, call, processing_stats, coordinator_stats, runs, raised,
                   workflows, workflow_steps, created, decisions, scoring,
                   system_health, execution_history>>

NextBatch ==
    \/ ProcessBatch
    \/ CallProcessInvoice
    \/ ExecuteAgent
    \/ AttemptReturns
    \/ AttemptRaises
    \/ AllAttemptsFailed
    \/ StoreAgentResult
    \/ FinalizePipeline
    \/ RecordBatchItem
    \/ ReturnBatch

SpecBatch == Init /\ [][NextBatch]_vars

(***************************************************************************)
(* AgentCoordinator.get_system_health, called between the runs of          *)
(* process_invoice.  Every stage's health_check makes one test call to     *)
(* Ollama, which raises or returns.                                        *)
(***************************************************************************)
\* the sets of stages whose test call raises during one get_system_health
OllamaFailures ==
    { {}, {"audit"}, {"validation", "approval", "audit"},
      {"data_extraction", "validation", "approval", "audit"}, AgentNames }

\* BaseAgent.health_check: the status it reports.  The success-rate test
\* comes last and overwrites what the test call left.
health_check(stats, test_raises) ==
    LET after_test == IF test_raises THEN "unhealthy" ELSE "healthy"
    IN  IF stats.executions > 0 /\ 2 * stats.successes < stats.executions
        THEN "degraded"
        ELSE after_test

\* get_agent_status: health_check catches the test call's exception itself,
\* so the except branch of get_agent_status is not taken
get_agent_status(stats, failing) ==
    [a \in AgentNames |->
        LET health == health_check(stats[a], a \in failing)
        IN  [health |-> health, available |-> health # "unhealthy"]]

get_system_health(agent_statuses) ==
    LET healthy_agents == Cardinality({a \in AgentNames : agent_statuses[a].available})
        total_agents == Cardinality(AgentNames)
        overall_health == IF healthy_agents = total_agents THEN "healthy" ELSE "degraded"
    IN  [overall_status |-> IF 2 * healthy_agents < total_agents THEN "unhealthy"
                            ELSE overall_health,
         healthy_agents |-> healthy_agents,
         total_agents |-> total_agents,
         agent_details |-> agent_statuses]

GetSystemHealth ==
    /\ pc \in {"idle", "returned"}
    /\ \E failing \in OllamaFailures :
          system_health' = Some(get_system_health(get_agent_status(processing_stats, failing)))
    /\ UNCHANGED <<pc, entry, workflow_type, step_index, context, workflow_result,
                   pipeline_result, call, processing_stats, coordinator_stats, runs, raised,
                   workflows, workflow_steps, created, decisions, scoring, batch_result,
                   execution_history>>

NextHealth ==
    \/ GetSystemHealth
    \/ ProcessInvoice
    \/ ExecuteAgent
    \/ AttemptReturns
    \/ AttemptRaises
    \/ AllAttemptsFailed
    \/ StoreAgentResult
    \/ FinalizePipeline

SpecHealth == Init /\ [][NextHealth]_vars

(***************************************************************************)
(* WorkflowManager.execution_history after many runs: the manager starts   *)
(* with the entries of its earlier runs, whose session ids are the numbers *)
(* up to 0, and the runs above follow.                                     *)
(***************************************************************************)
\* the history after n completed runs of the standard workflow
EarlierRuns(n) ==
    [k \in 1..n |-> [session_id |-> k - n,
                     workflow_type |-> "standard",
                     status |-> "completed",
                     executed_agents |-> PipelineAgents,
                     skipped_agents |-> <<>>,
                     error_count |-> 0,
                     warning_count |-> 0]]

InitHistory ==
    /\ pc = "idle"
    /\ entry = "none"
    /\ workflow_type = "none"
    /\ step_index = 0
    /\ context = NewContext
    /\ workflow_result = NewWorkflowResult(0)
    /\ pipeline_result = NewPipelineResult
    /\ call = NoCall
    /\ processing_stats = [a \in AgentNames |-> NewStats]
    /\ coordinator_stats = NewCoordinatorStats
    /\ runs = 0
    /\ raised = FALSE
    /\ workflows = InitialWorkflows
    /\ workflow_steps = <<>>
    /\ created = None
    /\ decisions = <<>>
    /\ scoring = NoScoring
    /\ batch_result = NoBatch
    /\ system_health = None
    /\ \E n \in {0, HistoryLimit - 1, HistoryLimit} : execution_history = EarlierRuns(n)

SpecHistory == InitHistory /\ [][Next]_vars

(***************************************************************************)
(* The scoring functions on every check list up to a length: each function *)
(* is applied to the list, then one more check is appended and each        *)
(* function is applied again.                                              *)
(***************************************************************************)
MaxChecks == 2

CheckStatuses == {"pass", "warning", "error", "info"}

CheckSeverities == {"low", "medium", "high"}

ScoredChecks == {Check(st, sv, "m") : st \in CheckStatuses, sv \in CheckSeverities}

CheckListsUpTo(n) == UNION {[1..k -> ScoredChecks] : k \in 0..n}

InitScore ==
    /\ pc = "idle"
    /\ entry = "scoring"
    /\ workflow_type = "none"
    /\ step_index = 0
    /\ context = NewContext
    /\ workflow_result = NewWorkflowResult(0)
    /\ pipeline_result = NewPipelineResult
    /\ call = NoCall
    /\ processing_stats = [a \in AgentNames |-> NewStats]
    /\ coordinator_stats = NewCoordinatorStats
    /\ runs = 0
    /\ raised = FALSE
    /\ workflows = InitialWorkflows
    /\ workflow_steps = <<>>
    /\ created = None
    /\ decisions = <<>>
    /\ \E results \in CheckListsUpTo(MaxChecks) : scoring = [NoScoring EXCEPT !.results = results]
    /\ batch_result = NoBatch
    /\ system_health = None
    /\ execution_history = <<>>

ScoreOf(implementation, results) ==
    CASE implementation = "validation" -> _calculate_validation_score(results)
      [] implementation = "regional_compliance" -> _calculate_compliance_score(results)
      [] implementation = "audit" -> _calculate_result_score(results)

\* one scoring function is applied to the list
CalculateScore(implementation) ==
    /\ entry = "scoring"
    /\ scoring.score[implementation] = None
    /\ scoring' = [scoring EXCEPT
                      !.score[implementation] = Some(ScoreOf(implementation, scoring.results))]
    /\ UNCHANGED <<pc, entry, workflow_type, step_index, context, workflow_result,
                   pipeline_result, call, processing_stats, coordinator_stats, runs, raised,
                   workflows, workflow_steps, created, decisions, batch_result,
                   system_health, execution_history>>

\* a stage appends one more check to its list (validation_results.append /
\* compliance_results.append); the scores of the shorter list are kept
AppendResult(check) ==
    /\ entry = "scoring"
    /\ scoring.previous = None
    /\ \A i \in ScoringImplementations : scoring.score[i] # None
    /\ scoring' = [results |-> Append(scoring.results, check),
                   score |-> NoScoring.score,
                   previous |-> Some([results |-> scoring.results, score |-> scoring.score])]
    /\ UNCHANGED <<pc, entry, workflow_type, step_index, context, workflow_result,
                   pipeline_result, call, processing_stats, coordinator_stats, runs, raised,
                   workflows, workflow_steps, created, decisions, batch_result,
                   system_health, execution_history>>

NextScore ==
    \/ \E implementation \in ScoringImplementations : CalculateScore(implementation)
    \/ \E check \in ScoredChecks : AppendResult(check)

SpecScore == InitScore /\ [][NextScore]_vars

(***************************************************************************)
(* The validation and the compliance score of a check list and of the list *)
(* with two neighbouring checks exchanged, as the doubles the functions    *)
(* return.  Every permutation is a sequence of such exchanges.             *)
(***************************************************************************)
MaxOrdered == 3

OrderedImplementations == {"validation", "regional_compliance"}

NoOrdering ==
    [results |-> <<>>, score |-> [i \in OrderedImplementations |-> None], previous |-> None]

InitOrder ==
    /\ pc = "idle"
    /\ entry = "ordering"
    /\ workflow_type = "none"
    /\ step_index = 0
    /\ context = NewContext
    /\ workflow_result = NewWorkflowResult(0)
    /\ pipeline_result = NewPipelineResult
    /\ call = NoCall
    /\ processing_stats = [a \in AgentNames |-> NewStats]
    /\ coordinator_stats = NewCoordinatorStats
    /\ runs = 0
    /\ raised = FALSE
    /\ workflows = InitialWorkflows
    /\ workflow_steps = <<>>
    /\ created = None
    /\ decisions = <<>>
    /\ \E results \in CheckListsUpTo(MaxOrdered) :
          scoring = [NoOrdering EXCEPT !.results = results]
    /\ batch_result = NoBatch
    /\ system_health = None
    /\ execution_history = <<>>

DoubleScoreOf(implementation, results) ==
    CASE implementation = "validation" -> _calculate_validation_score_double(results)
      [] implementation = "regional_compliance" -> _calculate_compliance_score_double(results)

\* a call of a scoring function: it reads the list and returns the score
ScoringCall(implementation, state) ==
    [state EXCEPT !.score[implementation] = Some(DoubleScoreOf(implementation, state.results))]

CalculateScoreDouble(implementation) ==
    /\ entry = "ordering"
    /\ scoring.score[implementation] = None
    /\ scoring' = ScoringCall(implementation, scoring)
    /\ UNCHANGED <<pc, entry, workflow_type, step_index, context, workflow_result,
                   pipeline_result, call, processing_stats, coordinator_stats, runs, raised,
                   workflows, workflow_steps, created, decisions, batch_result,
                   system_health, execution_history>>

Exchanged(results, k) ==
    [j \in 1..Len(results) |->
        IF j = k THEN results[k + 1] ELSE IF j = k + 1 THEN results[k] ELSE results[j]]

\* the same checks are handed over in another order
ExchangeResults(k) ==
    /\ entry = "ordering"
    /\ scoring.previous = None
    /\ \A i \in OrderedImplementations : scoring.score[i] # None
    /\ k \in 1..(Len(scoring.results) - 1)
    /\ scoring' = [results |-> Exchanged(scoring.results, k),
                   score |-> NoOrdering.score,
                   previous |-> Some([results |-> scoring.results, score |-> scoring.score])]
    /\ UNCHANGED <<pc, entry, workflow_type, step_index, context, workflow_result,
                   pipeline_result, call, processing_stats, coordinator_stats, runs, raised,
                   workflows, workflow_steps, created, decisions, batch_result,
                   system_health, execution_history>>

NextOrder ==
    \/ \E implementation \in OrderedImplementations : CalculateScoreDouble(implementation)
    \/ \E k \in 1..MaxOrdered : ExchangeResults(k)

SpecOrder == InitOrder /\ [][NextOrder]_vars

(***************************************************************************)
(* The decide step for every Invoice it can be handed.                     *)
(* Invoice.confidence_score is Optional[float]; the extraction stage of    *)
(* this repository leaves it None, and then the approval stage's           *)
(* comparison raises.  To cover the decision engine's other outcomes, the  *)
(* specification below starts a run of execute_workflow at its approval    *)
(* step, after a parse, an extraction, a validation and a compliance step  *)
(* that did not abort it, with the Invoice's confidence drawn from a       *)
(* bounded set; the loop and the executor then run as above.               *)
(***************************************************************************)
\* Invoice.confidence_score, in hundredths
InvoiceConfidences == {None, Some(50), Some(80), Some(95)}

\* the workflows with an approval step
DecideWorkflows == {"standard", "fast_track", "detailed_review"}

\* execute_workflow's loop over the first k steps when no attempt raises and
\* step i's stage meets the outcome os[i]
RECURSIVE StepsDone(_, _, _)
StepsDone(steps, os, k) ==
    IF k = 0
    THEN [context |-> NewContext, workflow_result |-> NewWorkflowResult(Len(steps)),
          running |-> TRUE]
    ELSE LET before == StepsDone(steps, os, k - 1)
             step == steps[k]
             out == process(step.agent_name, _determine_step_input(step.agent_name, before.context),
                            before.context, os[k])
         IN  IF ~before.running THEN before
             ELSE IF ~should_execute(step, before.context)
             THEN [before EXCEPT
                      !.context.skipped_agents = Append(@, step.agent_name),
                      !.workflow_result.workflow_execution.skipped_steps = @ + 1]
             ELSE [context |-> [out.context EXCEPT
                                   !.results[step.agent_name] = Some(out.result),
                                   !.executed_agents = Append(@, step.agent_name)],
                   workflow_result |-> Stored(before.workflow_result, step.agent_name, out.result),
                   running |-> ~RequiredStepFailed(out.result, step)]

InitDecide ==
    \E wf \in DecideWorkflows, o1 \in DocumentParserOutcomes, o2 \in DataExtractionOutcomes,
       o3 \in ValidationOutcomes, o4 \in ComplianceOutcomes, c \in InvoiceConfidences :
        LET done == StepsDone(_define_workflows[wf], <<o1, o2, o3, o4>>, 4)
            last == done.context.results["regional_compliance"][1]
        IN  /\ done.running
            /\ done.context.invoice # None
            /\ pc = "loop"
            /\ entry = "execute_workflow"
            /\ workflow_type = wf
            /\ step_index = 5
            /\ context = [done.context EXCEPT !.invoice[1].confidence_score = c]
            /\ workflow_result = done.workflow_result
            /\ pipeline_result = NewPipelineResult
            /\ call = [NoCall EXCEPT !.agent = "regional_compliance", !.input_data = InvoiceInput,
                                     !.attempts = 1, !.returned = Some(last), !.succeeded = TRUE]
            /\ processing_stats =
                   [a \in AgentNames |->
                       IF done.context.results[a] # None
                       THEN [executions |-> 1, successes |-> 1, failures |-> 0]
                       ELSE NewStats]
            /\ coordinator_stats = NewCoordinatorStats
            /\ runs = 1
            /\ raised = FALSE
            /\ workflows = InitialWorkflows
            /\ workflow_steps = _define_workflows[wf]
            /\ created = None
            /\ decisions = <<>>
            /\ scoring = NoScoring
            /\ batch_result = NoBatch
            /\ system_health = None
            /\ execution_history = <<>>

NextDecide ==
    \/ ExecuteStep
    \/ AttemptReturns
    \/ AttemptRaises
    \/ AllAttemptsFailed
    \/ StoreResult
    \/ FinalizeWorkflow

SpecDecide == InitDecide /\ [][NextDecide]_vars

(***************************************************************************)
(* Properties                                                              *)
(***************************************************************************)
\* the steps of the running workflow whose stored result carries errors
StepsWithErrors(required) ==
    {k \in 1..Len(workflow_steps) :
        /\ workflow_steps[k].required = required
        /\ workflow_steps[k].agent_name \in AgentNames
        /\ workflow_result.results[workflow_steps[k].agent_name] # None
        /\ Len(workflow_result.results[workflow_steps[k].agent_name][1].errors) > 0}

\* the run-level messages of a list that name the stage
Naming(messages, agent_name) ==
    {i \in 1..Len(messages) : messages[i].agent = agent_name}

\* C1: in execute_workflow, once a required step's stage has returned a result
\* with a non-empty error list, the run has ended with status "failed", the
\* loop stopped at that step (that stage is the last one called and no later
\* step has a result), and the run's error list has an entry naming the stage.
C1_RequiredStepErrorsEndRun ==
    (entry = "execute_workflow") =>
        \A k \in StepsWithErrors(TRUE) :
            /\ pc = "returned"
            /\ workflow_result.status = "failed"
            /\ Naming(workflow_result.errors, workflow_steps[k].agent_name) # {}
            /\ step_index = k
            /\ call.agent = workflow_steps[k].agent_name
            /\ \A j \in (k + 1)..Len(workflow_steps) :
                  /\ workflow_result.results[workflow_steps[j].agent_name] = None
                  /\ \A i \in 1..Len(context.executed_agents) :
                        context.executed_agents[i] # workflow_steps[j].agent_name

C1_Witness ==
    /\ entry = "execute_workflow"
    /\ pc = "returned"
    /\ workflow_result.status = "failed"
    /\ \E k \in StepsWithErrors(TRUE) : k < Len(workflow_steps)

\* the stage ran to completion and its errors are failing checks only
ReportsFailingChecksOnly(result) ==
    /\ Len(result.errors) > 0
    /\ \A i \in 1..Len(result.errors) :
          result.errors[i][1] \in {"Validation error", "Compliance error"}

\* C2: a domain check failure never aborts a run by itself: when the validate
\* or the comply stage ran to completion and reported failing checks only, the
\* run has not ended at that step.
C2_CheckFailuresDoNotAbort ==
    \A a \in {"validation", "regional_compliance"} :
        (context.results[a] # None /\ ReportsFailingChecksOnly(context.results[a][1]))
            => ~(pc = "returned" /\ call.agent = a)

\* the run-level messages of a list that name the stage and carry one of the
\* errors of its result
Recording(messages, agent_name, result) ==
    {i \in Naming(messages, agent_name) :
        \E j \in 1..Len(result.errors) :
            \E d \in 1..Len(messages[i].detail) : messages[i].detail[d] = result.errors[j]}

Range(seq) == {seq[i] : i \in 1..Len(seq)}

\* execute_workflow has returned a result to its caller
WorkflowReturned == entry = "execute_workflow" /\ pc = "returned" /\ ~raised

\* the status of the domain record the run ended with
FinalInvoiceStatus ==
    IF context.invoice = None THEN "none" ELSE context.invoice[1].processing_status

\* the decision engine escalated: decision manual_review, requires_manual_review true
Escalated ==
    /\ context.approval_decision # None
    /\ context.approval_decision[1].decision = "manual_review"
    /\ context.approval_decision[1].requires_manual_review

C6_FastTrackSkipsOnHighConfidence ==
    (/\ entry = "execute_workflow"
     /\ workflow_type = "fast_track"
     /\ step_index > 3
     /\ context.results["data_extraction"] # None)
        => LET high == GE(context.results["data_extraction"][1].confidence_score, Rat(95, 100))
           IN  /\ ("validation" \in Range(context.skipped_agents)) <=> high
               /\ (context.results["validation"] # None) <=> ~high

\* The executor's bookkeeping (C7): one call of the executor makes at most max_retries + 1 attempts; its
\* attempts are the failed ones (one recorded error each) and at most one
\* returning attempt, after which no attempt follows; it has paused once per
\* failed attempt that another attempt follows; it hands a result to its
\* caller (after a returning attempt, or after max_retries + 1 failed ones),
\* and every step inside the call either ends it or uses up one attempt.
C7_Inv ==
    (call.agent # "none") =>
        LET failed == Len(call.result.errors)
            bound == max_retries[call.agent]
        IN  /\ call.attempts <= bound + 1
            /\ call.attempts = failed + (IF call.succeeded THEN 1 ELSE 0)
            /\ call.pauses = Min(failed, bound)
            /\ call.succeeded => (pc # "execute" /\ call.returned # None)
            /\ (pc # "execute") => call.returned # None
            /\ (call.returned # None /\ ~call.succeeded)
                  => (failed = bound + 1 /\ call.returned[1].errors = call.result.errors)
            /\ ~raised

\* C7: the invariant above holds in every state, and every step taken inside
\* a call either hands a result to the caller or uses up one of the
\* max_retries + 1 attempts.
C7_BoundedAttemptsAlwaysReturns ==
    /\ []C7_Inv
    /\ [][(pc = "execute") =>
             \/ (pc' = "store" /\ call'.returned # None)
             \/ (pc' = "execute" /\ call'.attempts = call.attempts + 1
                    /\ call'.attempts <= max_retries[call.agent] + 1)]_vars

C7_Witness ==
    /\ pc = "store"
    /\ call.agent = "validation"
    /\ ~call.succeeded
    /\ call.attempts = max_retries["validation"] + 1
    /\ call.pauses = max_retries["validation"]

\* C8: an attempt that returns a result ends the call with that result,
\* whatever its confidence score and its error list: no further attempt is
\* made, and the call adds one to the stage's successes and nothing to its
\* failures.
C8_ReturnedResultIsNotRetried ==
    [][AttemptReturns =>
          /\ pc' = "store"
          /\ call'.succeeded
          /\ call'.returned # None
          /\ call'.attempts = call.attempts + 1
          /\ processing_stats'[call.agent].successes = processing_stats[call.agent].successes + 1
          /\ processing_stats'[call.agent].failures = processing_stats[call.agent].failures]_vars

C8_Witness ==
    /\ pc = "store"
    /\ call.succeeded
    /\ Len(call.returned[1].errors) > 0
    /\ ~GE(call.returned[1].confidence_score, Rat(1, 2))
    /\ call.attempts = 1
    /\ processing_stats[call.agent].failures = 0

\* the executor's last call used up max_retries + 1 attempts without a
\* returning one, and its result has been handed to the workflow loop
ExhaustedCallStored ==
    /\ entry = "execute_workflow"
    /\ pc \in {"loop", "returned"}
    /\ call.agent # "none"
    /\ ~call.succeeded
    /\ call.returned # None
    /\ call.attempts = max_retries[call.agent] + 1

ReturnedResult == IF entry = "execute_workflow" THEN workflow_result ELSE pipeline_result

RunStatuses == {"failed", "approved", "rejected", "pending_review", "completed"}

C11_UnknownWorkflowRejected ==
    /\ []((entry = "execute_workflow" /\ pc # "idle" /\ workflow_steps = <<>>)
            => (/\ raised
                /\ pc = "returned"
                /\ call = NoCall
                /\ context.executed_agents = <<>>
                /\ \A a \in AgentNames : workflow_result.results[a] = None))
    /\ [][(runs' = runs + 1 /\ entry' = "execute_workflow"
               /\ StepsOf(workflows, workflow_type') = <<>>)
             => (/\ raised'
                 /\ pc' = "returned"
                 /\ processing_stats' = processing_stats
                 /\ coordinator_stats' = coordinator_stats)]_vars

C11_Witness ==
    /\ entry = "execute_workflow"
    /\ workflow_type = "no_such_workflow"
    /\ pc = "returned"
    /\ raised

\* the running workflow names a stage that is not in the stage registry
NamesUnknownStage == \E k \in 1..Len(workflow_steps) : workflow_steps[k].agent_name \notin AgentNames

\* C12: in a run of a workflow that names a stage absent from the stage
\* registry, no stage executes: no executor is called and no step is recorded
\* as executed.
C12_UnknownStageRejectedFirst ==
    (entry = "execute_workflow" /\ pc # "idle" /\ NamesUnknownStage)
        => (/\ call = NoCall
            /\ context.executed_agents = <<>>
            /\ workflow_result.workflow_execution.executed_steps = 0)

\* the factors the engine was invoked on, read from the context
HighErrors(checks) == SelectSeq(checks, LAMBDA r : r.status = "error" /\ r.severity = "high")

CriticalMessages ==
    MapMessage(HighErrors(context.validation_results \o context.compliance_results))
    \o (IF context.invoice[1].processing_status = "error"
        THEN <<"Invoice processing resulted in error status">> ELSE <<>>)

ManualApproverRequired ==
    context.approval_info # None /\ context.approval_info[1].approval_level # "auto"

ConfidenceAtLeast(threshold) ==
    /\ context.invoice[1].confidence_score # None
    /\ context.invoice[1].confidence_score[1] >= threshold

\* the position in the rule order of the rule a reason belongs to
RuleOf(text) ==
    CASE text = "Critical errors found" -> 1
      [] text \in {"Low confidence scores require manual review",
                   "Confidence scores below acceptable threshold"} -> 2
      [] text = "Compliance requirements not met" -> 3
      [] text = "Amount requires approval" -> 4
      [] text = "Severe validation issues found" -> 5
      [] text = "All validation and compliance checks passed" -> 6
      [] OTHER -> 0

\* the factors consulted when the rule at a position decides
ConsultedBy(rule) ==
    IF rule = 1 THEN <<"critical_errors">>
    ELSE SubSeq(<<"confidence_evaluation", "compliance_evaluation", "approval_authority",
                  "validation_evaluation">>, 1, IF rule >= 5 THEN 4 ELSE rule - 1)

\* C13: the rules are evaluated in the order critical-error, confidence,
\* compliance, authority, validation-severity, default-approve, and the
\* first rule that fires decides alone.  A check with status error and
\* severity high (or an Invoice in error status) gives "rejected" with the
\* reason listing the offending checks, whatever the confidence and the
\* approval info; a decision made by a later rule consulted exactly the
\* rules up to it, none of the earlier ones having fired.
C13_FirstRuleDecides ==
    (entry = "decision_engine") =>
        \A i \in 1..Len(decisions) :
            /\ (CriticalMessages # <<>>) =>
                  /\ decisions[i] # Raised
                  /\ decisions[i][1].decision = "rejected"
                  /\ decisions[i][1].reason = Reason("Critical errors found", CriticalMessages)
                  /\ ~decisions[i][1].requires_manual_review
            /\ (decisions[i] # Raised) =>
                  LET d == decisions[i][1]
                      rule == RuleOf(d.reason.text)
                  IN  /\ rule \in 1..6
                      /\ d.factors_considered = ConsultedBy(rule)
                      /\ (rule = 1) <=> (CriticalMessages # <<>>)
                      /\ (rule >= 3) => ConfidenceAtLeast(validation_threshold)
                      /\ (rule >= 4) => HighErrors(context.compliance_results) = <<>>
                      /\ (rule = 4) <=> (CriticalMessages = <<>> /\ ManualApproverRequired
                                          /\ ConfidenceAtLeast(validation_threshold))
                      /\ (rule = 4) => d.decision = "manual_review"
                      /\ (rule \in {3, 5}) => d.decision = "rejected"
                      /\ (rule = 6) <=> (d.decision = "approved")

\* a high-severity compliance error, a manual approver required, full confidence
C13_Witness ==
    /\ entry = "decision_engine"
    /\ Len(decisions) > 0
    /\ HighErrors(context.compliance_results) # <<>>
    /\ ManualApproverRequired
    /\ ConfidenceAtLeast(auto_approve_threshold)
    /\ decisions[1] # Raised
    /\ decisions[1][1].decision = "rejected"

\* C14: with no critical error, confidence below the review threshold gives
\* "rejected", confidence from the review threshold up to (not including)
\* the auto-approve threshold gives "manual_review", and only confidence at
\* or above the auto-approve threshold lets a later rule decide.
C14_ConfidenceRuleDecides ==
    (entry = "decision_engine") =>
        \A i \in 1..Len(decisions) :
            (CriticalMessages = <<>> /\ decisions[i] # Raised) =>
                LET d == decisions[i][1]
                    c == context.invoice[1].confidence_score[1]
                IN  /\ (c < validation_threshold) =>
                          d.decision = "rejected" /\ RuleOf(d.reason.text) = 2
                    /\ (c >= validation_threshold /\ c < auto_approve_threshold) =>
                          /\ d.decision = "manual_review"
                          /\ d.requires_manual_review
                          /\ RuleOf(d.reason.text) = 2
                    /\ (c >= auto_approve_threshold) => RuleOf(d.reason.text) > 2

\* the validation messages of the factors, and the severity test of rule 5
FlaggedValidationMessages ==
    MapMessage(SelectSeq(context.validation_results,
                         LAMBDA r : r.status \in {"error", "warning"}))

CountStatus(checks, status) == Len(SelectSeq(checks, LAMBDA r : r.status = status))

SevereValidation ==
    \/ CountStatus(context.validation_results, "error") > 5
    \/ CountStatus(context.validation_results, "warning") > 10
    \/ HighErrors(context.validation_results) # <<>>

ComplianceWarningMessages ==
    MapMessage(SelectSeq(context.compliance_results,
                         LAMBDA r : \/ r.status = "error" /\ r.severity # "high"
                                    \/ r.status = "warning"))

ReachedValidationRule(d) ==
    Len(d.factors_considered) = 4 /\ d.factors_considered[4] = "validation_evaluation"

\* C15: when none of the rules 1-4 fires, the decision is "rejected" if
\* there are more than 5 validation errors, more than 10 validation
\* warnings or a high-severity validation error; otherwise it is
\* "approved", and the decision's warnings are the validation messages,
\* each once and in order, followed by the compliance warnings.
C15_ValidationSeverityThenApprove ==
    (entry = "decision_engine") =>
        \A i \in 1..Len(decisions) :
            (decisions[i] # Raised /\ ReachedValidationRule(decisions[i][1])) =>
                LET d == decisions[i][1]
                IN  IF SevereValidation
                    THEN /\ d.decision = "rejected"
                         /\ d.reason = Reason("Severe validation issues found", <<>>)
                    ELSE /\ d.decision = "approved"
                         /\ d.reason = Reason("All validation and compliance checks passed", <<>>)
                         /\ d.approver = "system"
                         /\ ~d.requires_manual_review
                         /\ d.warnings = FlaggedValidationMessages \o ComplianceWarningMessages

\* five low-severity errors: approved, the five messages carried once each
C15_Witness ==
    /\ entry = "decision_engine"
    /\ Len(decisions) > 0
    /\ decisions[1] # Raised
    /\ ReachedValidationRule(decisions[1][1])
    /\ CountStatus(context.validation_results, "error") = 5
    /\ decisions[1][1].decision = "approved"
    /\ Len(decisions[1][1].warnings) >= 5

\* six low-severity errors: one more than the limit, rejected
C15_WitnessSevere ==
    /\ entry = "decision_engine"
    /\ Len(decisions) > 0
    /\ decisions[1] # Raised
    /\ ReachedValidationRule(decisions[1][1])
    /\ CountStatus(context.validation_results, "error") = 6
    /\ decisions[1][1].decision = "rejected"

EQ(a, b) == a.num * b.den = b.num * a.den

InUnitInterval(score) == score.den > 0 /\ 0 <= score.num /\ score.num <= score.den

Scored(implementation) == scoring.score[implementation] # None

\* C17: for every list of check outcomes (any length including the empty
\* list, any mix of status and severity) each of the three scoring
\* functions returns a value in [0.0, 1.0].
C17_ScoreInUnitInterval ==
    (entry = "scoring") =>
        \A i \in ScoringImplementations :
            Scored(i) => InUnitInterval(scoring.score[i][1])

\* a list of three checks with an info and an error entry, scored by all three
C17_Witness ==
    /\ entry = "scoring"
    /\ Len(scoring.results) = 3
    /\ \E j, k \in 1..3 : scoring.results[j].status = "info" /\ scoring.results[k].status = "error"
    /\ \A i \in ScoringImplementations : Scored(i)

\* the weights and factors of the scoring rule, in tenths
RuleWeight(severity) ==
    CASE severity = "low" -> 1 [] severity = "medium" -> 2 [] severity = "high" -> 3

RuleFactor(status) ==
    CASE status = "pass" -> 10 [] status = "warning" -> 7 [] status = "error" -> 0

WeightedPoints(results) ==
    LET sum[k \in 0..Len(results)] ==
            IF k = 0 THEN 0
            ELSE sum[k - 1] + RuleWeight(results[k].severity) * RuleFactor(results[k].status)
    IN  sum[Len(results)]

TotalWeight(results) ==
    LET sum[k \in 0..Len(results)] ==
            IF k = 0 THEN 0 ELSE sum[k - 1] + RuleWeight(results[k].severity)
    IN  sum[Len(results)]

OnlyPassWarningError(results) ==
    \A k \in 1..Len(results) : results[k].status \in {"pass", "warning", "error"}

ExampleChecks ==
    <<Check("pass", "low", "m"), Check("warning", "medium", "m"), Check("error", "high", "m")>>

Appended(status) ==
    /\ entry = "scoring"
    /\ scoring.previous # None
    /\ scoring.results[Len(scoring.results)].status = status

HadNonInfoCheck ==
    \E k \in 1..Len(scoring.previous[1].results) :
        scoring.previous[1].results[k].status # "info"

\* C19: in each of the three scoring functions, info entries count neither
\* in the numerator nor in the denominator: appending an info entry to a
\* list with at least one non-info check leaves the score unchanged.
C19_InfoEntriesExcluded ==
    (Appended("info") /\ HadNonInfoCheck) =>
        \A i \in ScoringImplementations :
            Scored(i) => EQ(scoring.score[i][1], scoring.previous[1].score[i][1])

\* C20: appending one passing check, of any severity, to any list (the
\* empty list included) never lowers the score of any scoring function.
C20_PassNeverLowersScore ==
    Appended("pass") =>
        \A i \in ScoringImplementations :
            Scored(i) => GE(scoring.score[i][1], scoring.previous[1].score[i][1])

\* a pass appended to a list holding a warning and an error, rescored by all
C20_Witness ==
    /\ Appended("pass")
    /\ \E j, k \in 1..Len(scoring.previous[1].results) :
           /\ scoring.previous[1].results[j].status = "warning"
           /\ scoring.previous[1].results[k].status = "error"
    /\ \A i \in ScoringImplementations :
           /\ Scored(i)
           /\ ~EQ(scoring.score[i][1], scoring.previous[1].score[i][1])

\* a pass appended to the empty list and rescored by all
C20_WitnessEmpty ==
    /\ Appended("pass")
    /\ scoring.previous[1].results = <<>>
    /\ \A i \in ScoringImplementations : Scored(i)

\* C21: the scoring function is pure and order-independent: the same
\* checks in another order get the same score, and a call of the scoring
\* function changes neither the check list nor any other state.
C21_ScoreIsOrderIndependent ==
    (entry = "ordering" /\ scoring.previous # None) =>
        \A i \in OrderedImplementations :
            scoring.score[i] # None => scoring.score[i] = scoring.previous[1].score[i]

\* the purity half of C21: a scoring call leaves the list and the rest alone
C21_ScoringIsPure ==
    [][(\E i \in OrderedImplementations : CalculateScoreDouble(i)) =>
           /\ scoring'.results = scoring.results
           /\ scoring'.previous = scoring.previous
           /\ UNCHANGED <<context, workflow_result, pipeline_result, processing_stats,
                          coordinator_stats, decisions>>]_vars

\* a list of three checks was reordered and scored again by both functions
C21_Reordered ==
    /\ entry = "ordering"
    /\ scoring.previous # None
    /\ Len(scoring.results) = 3
    /\ scoring.results # scoring.previous[1].results
    /\ \A i \in OrderedImplementations : scoring.score[i] # None

\* every required step of the running workflow has a stored result without errors
AllRequiredSucceeded ==
    \A k \in 1..Len(workflow_steps) :
        workflow_steps[k].required =>
            /\ workflow_steps[k].agent_name \in AgentNames
            /\ workflow_result.results[workflow_steps[k].agent_name] # None
            /\ workflow_result.results[workflow_steps[k].agent_name][1].errors = <<>>

\* C22: a returned run in which every required step succeeded and the
\* domain record carries no terminal status (rejected, error) has a status
\* in {completed, approved, pending_review} and never "failed", whatever
\* happened to the optional steps of the workflow.
C22_RequiredSuccessNeverFailed ==
    (WorkflowReturned /\ AllRequiredSucceeded /\ FinalInvoiceStatus \notin {"rejected", "error"})
        => workflow_result.status \in {"completed", "approved", "pending_review"}

\* C23: whatever the workflow and the position of the failing step in it,
\* when a required step's result carries an error the returned count of
\* executed steps is strictly less than the workflow's total step count.
C23_FailureLeavesStepsUnexecuted ==
    (WorkflowReturned /\ StepsWithErrors(TRUE) # {}) =>
        workflow_result.workflow_execution.executed_steps
            < workflow_result.workflow_execution.total_steps

\* the loop stands at a step whose predicate is false on the current context
AtSkippedStep ==
    /\ entry = "execute_workflow"
    /\ pc = "loop"
    /\ step_index <= Len(workflow_steps)
    /\ ~should_execute(CurrentStep, context)

\* no stage was called for a skipped step and no result is stored for it
SkippedStepsLeftAlone ==
    (entry = "execute_workflow") =>
        /\ workflow_result.workflow_execution.skipped_steps = Len(context.skipped_agents)
        /\ \A a \in Range(context.skipped_agents) :
              /\ a \notin Range(context.executed_agents)
              /\ Cardinality({i \in 1..Len(context.skipped_agents) :
                                 context.skipped_agents[i] = a}) = 1
              /\ a \in AgentNames => workflow_result.results[a] = None

\* the step the loop takes from a skipped step
SkipCountsOnce ==
    AtSkippedStep =>
        /\ workflow_result'.workflow_execution.skipped_steps
              = workflow_result.workflow_execution.skipped_steps + 1
        /\ workflow_result'.workflow_execution.executed_steps
              = workflow_result.workflow_execution.executed_steps
        /\ workflow_result'.results = workflow_result.results
        /\ context'.executed_agents = context.executed_agents
        /\ context'.results = context.results
        /\ UNCHANGED <<call, processing_stats>>
        /\ step_index' = step_index + 1

\* C24: a step whose predicate is false on the current context is counted
\* exactly once in skipped_steps and not in executed_steps, its stage is
\* not invoked and no result is stored for it.
C24_SkippedStepCountedOnce == []SkippedStepsLeftAlone /\ [][SkipCountsOnce]_vars

\* a fast_track run returned after skipping its validation step
C24_Witness ==
    /\ WorkflowReturned
    /\ workflow_type = "fast_track"
    /\ context.skipped_agents = <<"validation">>
    /\ workflow_result.workflow_execution.skipped_steps = 1
    /\ workflow_result.workflow_execution.executed_steps >= 3

\* C25: skipping a step leaves the run context unmodified: every key of
\* the context has the same value after the skipped step as before it.
C25_SkipLeavesContextUnmodified == [][AtSkippedStep => context' = context]_vars

\* the files of the batch whose own processing failed
FailedFiles == {i \in 1..Len(batch_result.results) : batch_result.results[i] = "failed"}

\* C26: process_batch over N files of which M fail individually returns
\* processed = N and failed >= M and does not raise to its caller; a
\* failing file does not stop the loop: every file after it is processed
\* and entered too.
C26_BatchSurvivesFailingItems ==
    (batch_result.at # "off") =>
        /\ ~raised
        /\ batch_result.processed = Len(batch_result.results)
        /\ batch_result.item = Len(batch_result.results)
        /\ batch_result.failed >= Cardinality(FailedFiles)
        /\ (batch_result.at = "returned") =>
              /\ batch_result.processed = batch_result.total_files
              /\ Len(batch_result.results) = batch_result.total_files

\* a batch of two files returned: the first file failed, the second did not
C26_Witness ==
    /\ batch_result.at = "returned"
    /\ batch_result.total_files = 2
    /\ batch_result.results[1] = "failed"
    /\ batch_result.results[2] # "failed"
    /\ batch_result.processed = 2
    /\ batch_result.failed = 1

\* a run of an entry point ends in this step by returning to its caller
RunEnds == pc # "returned" /\ pc' = "returned" /\ ~raised'

\* C27: after every run, through execute_workflow or process_invoice and
\* whatever its outcome, the Coordinator's statistics are updated: the
\* total-runs counter goes up by exactly one, and so does the counter that
\* matches the run's final status (successful, failed, pending_review).
C27_EveryRunIsCounted ==
    [][RunEnds =>
          LET status == IF entry = "execute_workflow" THEN workflow_result'.status
                        ELSE pipeline_result'.status
          IN  /\ coordinator_stats'.total_processed = coordinator_stats.total_processed + 1
              /\ (status = "approved") =>
                    coordinator_stats'.successful = coordinator_stats.successful + 1
              /\ (status = "failed") =>
                    coordinator_stats'.failed = coordinator_stats.failed + 1
              /\ (status = "pending_review") =>
                    coordinator_stats'.pending_review = coordinator_stats.pending_review + 1]_vars

\* the calls of a stage's executor that have completed
Completed(agent) == processing_stats[agent].successes + processing_stats[agent].failures

CallUnderWay(agent) == pc = "execute" /\ call.agent = agent

\* executions = successes + failures, the call under way being counted already
StatisticsBalance ==
    \A agent \in AgentNames :
        processing_stats[agent].executions
            = Completed(agent) + (IF CallUnderWay(agent) THEN 1 ELSE 0)

\* the steps of a call: its start, an attempt that does not end it, its end
StatisticsPerCall ==
    /\ (pc # "execute" /\ pc' = "execute") =>
          /\ processing_stats'[call'.agent].executions
                = processing_stats[call'.agent].executions + 1
          /\ \A agent \in AgentNames : Completed(agent)' = Completed(agent)
    /\ (pc = "execute" /\ pc' = "execute") => processing_stats' = processing_stats
    /\ (pc = "execute" /\ pc' = "store") =>
          /\ processing_stats'[call.agent].executions = processing_stats[call.agent].executions
          /\ \/ /\ processing_stats'[call.agent].successes
                      = processing_stats[call.agent].successes + 1
                /\ processing_stats'[call.agent].failures = processing_stats[call.agent].failures
             \/ /\ processing_stats'[call.agent].failures
                      = processing_stats[call.agent].failures + 1
                /\ processing_stats'[call.agent].successes
                      = processing_stats[call.agent].successes
          /\ \A agent \in AgentNames \ {call.agent} :
                processing_stats'[agent] = processing_stats[agent]

\* C28: per call of a stage's executor, executions goes up by exactly one
\* and exactly one of successes and failures goes up by exactly one,
\* whatever the number of attempts; executions = successes + failures after
\* every completed call.
C28_StatisticsOncePerCall == []StatisticsBalance /\ [][StatisticsPerCall]_vars

\* a call that ended after all its attempts raised: one execution, one failure
C28_Witness ==
    /\ pc = "store"
    /\ call.attempts = max_retries[call.agent] + 1
    /\ call.attempts > 1
    /\ ~call.succeeded
    /\ processing_stats[call.agent] = [executions |-> 1, successes |-> 0, failures |-> 1]

\* the stage whose process call this step makes, "none" for any other step
StageActing == IF pc = "execute" THEN call.agent ELSE "none"

\* the status the domain record is given in this step
StatusWritten(status) == FinalInvoiceStatus # status /\ FinalInvoiceStatus' = status

\* C29: within a run the domain record's status becomes approved or
\* rejected only through the decide stage and validated only through the
\* validate stage; the parse, extract, comply and audit stages never write
\* approved, rejected or validated.
C29_StatusWriters ==
    [][/\ (StatusWritten("approved") \/ StatusWritten("rejected")) => StageActing = "approval"
       /\ StatusWritten("validated") => StageActing = "validation"
       /\ (StageActing \in {"document_parser", "data_extraction", "regional_compliance", "audit"})
             => FinalInvoiceStatus' \in {FinalInvoiceStatus, "pending", "error"}]_vars

\* the decide stage has just rejected a record the validate stage had validated or failed
C29_Witness ==
    /\ pc = "store"
    /\ call.agent = "approval"
    /\ FinalInvoiceStatus = "rejected"
    /\ context.results["validation"] # None
    /\ context.results["regional_compliance"] # None

\* how far along pending -> processing -> validated -> {approved | rejected} a status is
StatusRank(status) ==
    CASE status = "pending" -> 0
      [] status = "processing" -> 1
      [] status = "validated" -> 2
      [] status \in {"approved", "rejected"} -> 3

\* C30: the domain record's status only moves forward along
\* pending -> processing -> validated -> {approved | rejected}, or into
\* error, and error is terminal: once the status is error no later stage of
\* the run changes it.
C30_StatusMovesForward ==
    [][(FinalInvoiceStatus # "none" /\ FinalInvoiceStatus' # "none"
        /\ FinalInvoiceStatus' # FinalInvoiceStatus) =>
           /\ FinalInvoiceStatus # "error"
           /\ \/ FinalInvoiceStatus' = "error"
              \/ StatusRank(FinalInvoiceStatus') > StatusRank(FinalInvoiceStatus)]_vars

\* the stages whose own health status is healthy in the last report
OwnHealthy == {a \in AgentNames : system_health[1].agent_details[a].health = "healthy"}

WorkflowCalled == runs' = runs + 1 /\ entry' = "execute_workflow"

\* C32: after create_custom_workflow(name, steps) has returned true, the
\* workflow is selectable by that name and a run of it goes through exactly
\* the supplied steps, in the supplied order and with the supplied required
\* flags, for every supplied step list including the empty one.
C32_CustomWorkflowSelectable ==
    [][(WorkflowCalled /\ created = Some(TRUE) /\ workflow_type' \in CustomNames) =>
          /\ ~raised'
          /\ workflows[workflow_type'] # None
          /\ workflow_steps' = workflows[workflow_type'][1]
          /\ workflow_result'.workflow_execution.total_steps = Len(workflow_steps')]_vars

\* sub can be obtained from full by deleting elements
RECURSIVE IsSubsequence(_, _)
IsSubsequence(sub, full) ==
    IF sub = <<>> THEN TRUE
    ELSE IF full = <<>> THEN FALSE
    ELSE IF Head(sub) = Head(full) THEN IsSubsequence(Tail(sub), Tail(full))
    ELSE IsSubsequence(sub, Tail(full))

\* the stage names of the run's step list, in list order
StepNames == [k \in 1..Len(workflow_steps) |-> workflow_steps[k].agent_name]

\* C33: within one run the stages are invoked one at a time in the order of
\* the workflow's step list: the sequence of executed stages is a
\* subsequence of the step list, the executor of a step is called at most
\* once per run (its retries are attempts inside that one call), and a
\* step's call starts only after the result of every step executed before
\* it has been stored in the context.
C33_StagesRunInListOrder ==
    /\ (entry = "execute_workflow" /\ ~raised) =>
          /\ IsSubsequence(context.executed_agents, StepNames)
          /\ \A k \in 1..Len(context.executed_agents) :
                context.results[context.executed_agents[k]] # None
    /\ (entry = "execute_workflow" /\ pc \in {"execute", "store"}) =>
          /\ call.agent = StepNames[step_index]
          /\ call.agent \notin Range(context.executed_agents)
          /\ context.results[call.agent] = None
    /\ \A a \in AgentNames : processing_stats[a].executions <= runs

\* a fast_track run that skipped the validation step and executed three of
\* the other steps, in list order
C33_Witness ==
    /\ WorkflowReturned
    /\ workflow_type = "fast_track"
    /\ context.skipped_agents = <<"validation">>
    /\ context.executed_agents =
           <<"document_parser", "data_extraction", "regional_compliance">>
    /\ \A a \in Range(context.executed_agents) : processing_stats[a].executions = 1

\* C34: the parse and the extract stage always receive the original payload;
\* every later stage (validate, comply, decide, audit) receives the domain
\* record that the context holds when the step starts.
C34_InputRouting ==
    (pc = "execute" /\ entry \in {"execute_workflow", "process_invoice"}) =>
        IF call.agent \in {"document_parser", "data_extraction"}
        THEN call.input_data = PayloadInput
        ELSE call.input_data = InvoiceInput /\ context.invoice # None

\* every string of a stage's list is carried by a run-level message that
\* names the stage
Aggregated(messages, agent_name, strings) ==
    \A j \in 1..Len(strings) :
        \E i \in Naming(messages, agent_name) : strings[j] \in Range(messages[i].detail)

\* C35: at the end of every run, a run ended by a required step's failure
\* included, every error string and every warning string of every executed
\* stage's result is in the run-level errors, respectively warnings, list
\* with the stage's name in front.
C35_StageMessagesAggregated ==
    WorkflowReturned =>
        \A a \in AgentNames :
            workflow_result.results[a] # None =>
                /\ Aggregated(workflow_result.errors, a, workflow_result.results[a][1].errors)
                /\ Aggregated(workflow_result.warnings, a, workflow_result.results[a][1].warnings)

\* a run of execute_workflow on a registered workflow ends in this step
WorkflowRunEnds == RunEnds /\ entry = "execute_workflow"

\* the history gained the run's record at its end and lost at most its
\* oldest record; the records kept are in the order they had
RecordAppended ==
    LET before == execution_history
        after == execution_history'
        kept == Len(after) - 1
    IN  /\ Len(after) = Min(Len(before) + 1, HistoryLimit)
        /\ after[Len(after)].status = workflow_result'.status
        /\ after[Len(after)].session_id = runs
        /\ \A i \in 1..kept : after[i] = before[Len(before) - kept + i]

\* C36: every run of execute_workflow on a registered workflow, completed or
\* failed, appends exactly one record carrying the run's final status to the
\* execution history, no other step changes the history, and after any
\* sequence of runs the history holds at most 1000 records, the most recent
\* ones in run order.
C36_HistoryAppendedAndCapped ==
    /\ [](Len(execution_history) <= HistoryLimit)
    /\ [][IF WorkflowRunEnds THEN RecordAppended
          ELSE execution_history' = execution_history]_vars

\* the 1001st run has ended: its record is the last of 1000 and the record
\* of the oldest run is gone
C36_Witness ==
    /\ WorkflowReturned
    /\ Len(execution_history) = HistoryLimit
    /\ execution_history[HistoryLimit].session_id = 1
    /\ execution_history[HistoryLimit].status = "failed"
    /\ execution_history[1].session_id = 2 - HistoryLimit

\* the steps of the standard workflow that are required and whose stage
\* returned a result with errors in the process_invoice call of a batch item
FailedRequiredStages ==
    {k \in 1..Len(_define_workflows.standard) :
        /\ _define_workflows.standard[k].required
        /\ pipeline_result.results[_define_workflows.standard[k].agent_name] # None
        /\ pipeline_result.results[_define_workflows.standard[k].agent_name][1].errors # <<>>}

\* C37: process_batch gives each item the run semantics of the standard
\* workflow: as in execute_workflow('standard'), an error in the result of a
\* required stage (validate, comply and decide included) makes the item's
\* status failed and no later stage of the item is run.
C37_BatchItemFollowsStandardRun ==
    (batch_result.at = "called" /\ pc = "returned") =>
        \A k \in FailedRequiredStages :
            /\ pipeline_result.status = "failed"
            /\ \A j \in (k + 1)..Len(_define_workflows.standard) :
                  pipeline_result.results[_define_workflows.standard[j].agent_name] = None

\* the decide stage has been called on a domain record, after an extract
\* stage that returned without errors
DecideAfterExtract ==
    /\ entry \in {"execute_workflow", "process_invoice"}
    /\ pc = "execute"
    /\ call.agent = "approval"
    /\ context.invoice # None
    /\ context.results["data_extraction"] # None
    /\ context.results["data_extraction"][1].errors = <<>>

\* C38: whenever the decide stage runs after a successful extract stage, the
\* confidence score of the domain record, which the decision engine's
\* confidence rule compares with the thresholds, has been written with a
\* number in [0,1] (here 0..100 hundredths) by an earlier stage of the run;
\* it is never still unset (None).
C38_ConfidenceSetBeforeDecide ==
    DecideAfterExtract =>
        /\ context.invoice[1].confidence_score # None
        /\ context.invoice[1].confidence_score[1] \in 0..100

\* the run went through its whole step list and returned after the loop:
\* no required step's failure ended it
ReturnedAfterLoop == WorkflowReturned /\ step_index > Len(workflow_steps)

\* C39: executed_steps + skipped_steps <= total_steps in every state of a
\* run, with equality at the end of every run that was not ended by a
\* required step's failure.
C39_StepCountersConsistent ==
    (entry = "execute_workflow" /\ ~raised) =>
        LET counters == workflow_result.workflow_execution
        IN  /\ counters.executed_steps + counters.skipped_steps <= counters.total_steps
            /\ ReturnedAfterLoop =>
                  counters.executed_steps + counters.skipped_steps = counters.total_steps

\* the decide stage returns in this step with a non-empty error list
DecideReturnsErrors ==
    /\ pc = "execute"
    /\ call.agent = "approval"
    /\ call'.returned # None
    /\ call'.returned[1].errors # <<>>

\* C40: when the decide stage returns a result whose error list is not empty
\* (the decision could not be completed), the status of the domain record is
\* what it was before the stage ran: approved or rejected is written only
\* when the stage completes without error.
C40_FailedDecisionLeavesStatus ==
    [][(DecideReturnsErrors /\ context.invoice # None) =>
          /\ context'.invoice # None
          /\ context'.invoice[1].processing_status = context.invoice[1].processing_status]_vars

====
